---------------------------- MODULE Spec2Model ----------------------------
(***************************************************************************)
(* A model of cc-wrapped: the merge engine (mergeData), the stats          *)
(* calculator (calculateStats, calculateStreaks, countStreakBackwards,     *)
(* findMostActiveDay) of stats.ts and the remote collector                 *)
(* (collectFromAllRemoteHosts) of remote-collector.ts.                     *)
(*                                                                         *)
(* Representation.                                                         *)
(*  - An instant is an integer number of hours since the epoch (UTC); the  *)
(*    source counts milliseconds, 24 * 60 * 60 * 1000 of them to a day.    *)
(*  - A date key "YYYY-MM-DD" is the integer index of its calendar day;    *)
(*    the order of the keys as strings is the order of the indexes, and    *)
(*    the key's "YYYY" prefix is YearOf(day).                              *)
(*  - An ISO timestamp string is the instant it denotes; strings of one    *)
(*    format compare as their instants do.                                 *)
(*  - A JavaScript Map or object is the sequence of its entries in         *)
(*    insertion order.                                                     *)
(*  - null / undefined / "" of a scalar is Null, NaN is NaN.               *)
(***************************************************************************)
EXTENDS Integers, Sequences, FiniteSets, TLC

VARIABLES
    pc,         \* position of the running operation
    local,      \* CollectedData read by the local collector
    remotes,    \* RemoteData[] handed to calculateStats / mergeData
    oldestLocal,\* result of findOldestLocalSessionTimestamp
    year,       \* requested year
    now,        \* wall clock (instant) read by new Date() / Date.now()
    zone,       \* time zone of the process
    merged,     \* result of mergeData
    stats,      \* result of calculateStats
    activity,   \* dailyActivity map handed to calculateStreaks / findMostActiveDay
    streaks,    \* result of calculateStreaks
    mostActive, \* result of findMostActiveDay
    hosts,      \* hosts handed to collectFromAllRemoteHosts
    hostIdx,    \* index of the host being collected
    cur,        \* artifacts fetched so far for the current host
    results,    \* results array of collectFromAllRemoteHosts
    progress,   \* calls made to onProgress, in order
    issued,     \* remote commands issued so far, in order
    inFlight,   \* remote command being executed, if any
    shown,      \* what main has shown to the user, in order
    image,      \* result of generateImage
    exitCode,   \* status handed to process.exit
    modelId,    \* model id handed to getModelPricing
    pricing,    \* result of getModelPricing
    roots,      \* candidate storage roots of the local collector
    collected   \* result of collectStatsCache

inputVars == <<local, remotes, oldestLocal, year, now, zone>>
streakVars == <<activity, streaks, mostActive>>
remoteVars == <<hosts, hostIdx, cur, results, progress, issued, inFlight>>
cliVars == <<shown, image, exitCode>>
pricingVars == <<modelId, pricing>>
rootVars == <<roots, collected>>

vars == <<pc, inputVars, merged, stats, streakVars, remoteVars, cliVars,
          pricingVars, rootVars>>

-----------------------------------------------------------------------------
(* JavaScript values *)

Null == -1
NaN == -2

Truthy(x) == x # Null /\ x # NaN /\ x # 0

\* x || 0
OrZero(x) == IF Truthy(x) THEN x ELSE 0

\* a + b on numbers, where a missing operand makes the sum NaN
JsAdd(a, b) == IF a \in {Null, NaN} \/ b \in {Null, NaN} THEN NaN ELSE a + b

Min2(a, b) == IF a <= b THEN a ELSE b

\* Math.round(n / d) for n >= 0, d > 0: the nearest integer, halves up
Round(n, d) == (2 * n + d) \div (2 * d)

\* Math.floor(n / d) for d > 0
Floor(n, d) == n \div d

RECURSIVE SumSeq(_)
SumSeq(s) == IF s = <<>> THEN 0 ELSE Head(s) + SumSeq(Tail(s))

RECURSIVE Reverse(_)
Reverse(s) == IF s = <<>> THEN <<>> ELSE Append(Reverse(Tail(s)), Head(s))

\* the elements of a set of integers as an ascending sequence
RECURSIVE Ascending(_)
Ascending(S) ==
    IF S = {} THEN <<>>
    ELSE LET m == CHOOSE x \in S : \A y \in S : x <= y
         IN <<m>> \o Ascending(S \ {m})

Range(s) == {s[i] : i \in 1..Len(s)}

\* Array.from(new Set(s)): first occurrences, in order
RECURSIVE Unique(_)
Unique(s) ==
    IF s = <<>> THEN <<>>
    ELSE LET r == Unique(SubSeq(s, 1, Len(s) - 1))
         IN IF s[Len(s)] \in Range(r) THEN r ELSE Append(r, s[Len(s)])

-----------------------------------------------------------------------------
(* Calendar and clock *)

\* hours in 24 * 60 * 60 * 1000 ms
DayMs == 24

\* days of a calendar year of the model
YearLen == 7

YearOf(day) == day \div YearLen

\* A zone is [offset, dstDay, shift]: local time is UTC + offset, and the
\* local calendar day dstDay is DayMs + shift hours long (shift = 1: clocks
\* set back, shift = -1: clocks set forward, shift = 0: no transition).
LocalDayStart(z, day) ==
    DayMs * day - z.offset + (IF day > z.dstDay THEN z.shift ELSE 0)

\* formatDateKey(new Date(t)): the local calendar day that holds instant t
formatDateKey(z, t) ==
    CHOOSE day \in ((t \div DayMs) - 2)..((t \div DayMs) + 2) :
        LocalDayStart(z, day) <= t /\ t < LocalDayStart(z, day + 1)

\* new Date("YYYY-MM-DD").getTime(): a date-only string is UTC midnight
ParseDateKey(day) == DayMs * day

\* new Date(t).getDay(), 0 = Sunday; day 0 of the model is a Sunday
getDay(z, t) == formatDateKey(z, t) % 7

\* new Date().toISOString().split("T")[0]: the UTC calendar day
UtcDateKey(t) == t \div DayMs

UTC == [offset |-> 0, dstDay |-> 0, shift |-> 0]

-----------------------------------------------------------------------------
(* Data model (types.ts, remote-collector.ts) *)

\* statsCache: null
NullCache == [isNull |-> TRUE]

\* longestSession absent from a cache
NullSession == [isNull |-> TRUE]

DailyActivity(date, messageCount, sessionCount, toolCallCount) ==
    [date |-> date, messageCount |-> messageCount,
     sessionCount |-> sessionCount, toolCallCount |-> toolCallCount]

ModelUsage(id, inputTokens, outputTokens, cacheRead, cacheCreation, costUSD) ==
    [id |-> id, inputTokens |-> inputTokens, outputTokens |-> outputTokens,
     cacheReadInputTokens |-> cacheRead,
     cacheCreationInputTokens |-> cacheCreation,
     webSearchRequests |-> 0, costUSD |-> costUSD, contextWindow |-> 0]

LongestSession(sessionId, duration, messageCount, timestamp) ==
    [isNull |-> FALSE, sessionId |-> sessionId, duration |-> duration,
     messageCount |-> messageCount, timestamp |-> timestamp]

ClaudeCodeStats(lastComputedDate, dailyActivity, modelUsage, totalSessions, totalMessages, longestSession, firstSessionDate) ==
    [isNull |-> FALSE, version |-> 1, lastComputedDate |-> lastComputedDate,
     dailyActivity |-> dailyActivity, dailyModelTokens |-> <<>>,
     modelUsage |-> modelUsage, totalSessions |-> totalSessions,
     totalMessages |-> totalMessages, longestSession |-> longestSession,
     firstSessionDate |-> firstSessionDate, hourCounts |-> <<>>]

\* a project path is the sequence of its "/"-separated segments
\* (project.split("/")); the empty path is <<"">>
HistoryEntry(timestamp, project, sessionId) ==
    [timestamp |-> timestamp, project |-> project, sessionId |-> sessionId]

CollectedData(statsCache, history, projects) ==
    [statsCache |-> statsCache, history |-> history, projects |-> projects]

RemoteData(host, statsCache, history, projects, oldestSessionTimestamp) ==
    [host |-> host, statsCache |-> statsCache, history |-> history,
     projects |-> projects, oldestSessionTimestamp |-> oldestSessionTimestamp]

\* entry.project.split("/").pop() || entry.project
\* (a name is a sequence of segments: the last one, or the whole path when
\* the last segment is empty)
ProjectName(project) ==
    IF project[Len(project)] # ""
    THEN <<project[Len(project)]>>
    ELSE project

\* extractProjects / collectProjects: the names of the entries that carry
\* a project, first occurrences in order
RECURSIVE extractProjects(_)
extractProjects(history) ==
    IF history = <<>> THEN <<>>
    ELSE LET r == extractProjects(SubSeq(history, 1, Len(history) - 1))
             e == history[Len(history)]
         IN IF e.project = <<"">> THEN r
            ELSE Unique(Append(r, ProjectName(e.project)))

-----------------------------------------------------------------------------
(* mergeData (stats.ts) *)

\* position of key k in the entries m of a Map, 0 when absent
DayIndex(m, date) ==
    IF \E i \in 1..Len(m) : m[i].date = date
    THEN CHOOSE i \in 1..Len(m) : m[i].date = date
    ELSE 0

ModelIndex(m, id) ==
    IF \E i \in 1..Len(m) : m[i].id = id
    THEN CHOOSE i \in 1..Len(m) : m[i].id = id
    ELSE 0

\* mergedDailyActivity.set(day.date, {...}) of the local loop
SetDay(m, day) ==
    LET i == DayIndex(m, day.date)
        rec == DailyActivity(day.date, day.messageCount, day.sessionCount,
                             day.toolCallCount)
    IN IF i = 0 THEN Append(m, rec) ELSE [m EXCEPT ![i] = rec]

RECURSIVE SetLocalDays(_, _)
SetLocalDays(m, days) ==
    IF days = <<>> THEN m
    ELSE SetLocalDays(SetDay(m, Head(days)), Tail(days))

\* mergedModelUsage.set(modelId, { ...usage }) of the local loop
SetModel(m, usage) ==
    LET i == ModelIndex(m, usage.id)
    IN IF i = 0 THEN Append(m, usage) ELSE [m EXCEPT ![i] = usage]

RECURSIVE SetLocalModels(_, _)
SetLocalModels(m, usages) ==
    IF usages = <<>> THEN m
    ELSE SetLocalModels(SetModel(m, Head(usages)), Tail(usages))

\* a remote day: summed into the existing record, or inserted
MergeDayOverwrite(m, day) == SetDay(m, day)

MergeDay(m, day) ==
    LET i == DayIndex(m, day.date)
    IN IF i # 0
       THEN [m EXCEPT ![i].messageCount = JsAdd(@, day.messageCount),
                      ![i].sessionCount = JsAdd(@, day.sessionCount),
                      ![i].toolCallCount = JsAdd(@, day.toolCallCount)]
       ELSE Append(m, DailyActivity(day.date, day.messageCount,
                                    day.sessionCount, day.toolCallCount))

RECURSIVE MergeRemoteDays(_, _)
MergeRemoteDays(m, days) ==
    IF days = <<>> THEN m
    ELSE MergeRemoteDays(MergeDay(m, Head(days)), Tail(days))

\* a remote model: fields summed with "|| 0", or inserted with "|| 0"
MergeModel(m, usage) ==
    LET i == ModelIndex(m, usage.id)
    IN IF i # 0
       THEN [m EXCEPT
               ![i].inputTokens = JsAdd(@, OrZero(usage.inputTokens)),
               ![i].outputTokens = JsAdd(@, OrZero(usage.outputTokens)),
               ![i].cacheReadInputTokens =
                   JsAdd(@, OrZero(usage.cacheReadInputTokens)),
               ![i].cacheCreationInputTokens =
                   JsAdd(@, OrZero(usage.cacheCreationInputTokens)),
               ![i].costUSD = JsAdd(@, OrZero(usage.costUSD))]
       ELSE Append(m, [id |-> usage.id,
                       inputTokens |-> OrZero(usage.inputTokens),
                       outputTokens |-> OrZero(usage.outputTokens),
                       cacheReadInputTokens |->
                           OrZero(usage.cacheReadInputTokens),
                       cacheCreationInputTokens |->
                           OrZero(usage.cacheCreationInputTokens),
                       costUSD |-> OrZero(usage.costUSD)])

RECURSIVE MergeRemoteModels(_, _)
MergeRemoteModels(m, usages) ==
    IF usages = <<>> THEN m
    ELSE MergeRemoteModels(MergeModel(m, Head(usages)), Tail(usages))

\* the accumulators before the remote loop ("Process local stats")
MergeLocal(loc) ==
    IF loc.statsCache.isNull
    THEN [daily |-> <<>>, models |-> <<>>, totalSessions |-> 0,
          totalMessages |-> 0, earliestDate |-> Null]
    ELSE [daily |-> SetLocalDays(<<>>, loc.statsCache.dailyActivity),
          models |-> SetLocalModels(<<>>, loc.statsCache.modelUsage),
          totalSessions |-> JsAdd(0, loc.statsCache.totalSessions),
          totalMessages |-> JsAdd(0, loc.statsCache.totalMessages),
          earliestDate |-> loc.statsCache.firstSessionDate]

\* one iteration of the loop "Merge remote stats"
MergeRemote(acc, remote) ==
    IF remote.statsCache.isNull THEN acc
    ELSE LET c == remote.statsCache
             e1 == IF Truthy(c.firstSessionDate)
                      /\ (~Truthy(acc.earliestDate)
                          \/ c.firstSessionDate < acc.earliestDate)
                   THEN c.firstSessionDate ELSE acc.earliestDate
             e2 == IF Truthy(remote.oldestSessionTimestamp)
                      /\ (~Truthy(e1) \/ remote.oldestSessionTimestamp < e1)
                   THEN remote.oldestSessionTimestamp ELSE e1
         IN [daily |-> MergeRemoteDays(acc.daily, c.dailyActivity),
             models |-> MergeRemoteModels(acc.models, c.modelUsage),
             totalSessions |-> JsAdd(acc.totalSessions, c.totalSessions),
             totalMessages |-> JsAdd(acc.totalMessages, c.totalMessages),
             earliestDate |-> e2]

RECURSIVE MergeRemotes(_, _)
MergeRemotes(acc, rs) ==
    IF rs = <<>> THEN acc
    ELSE MergeRemotes(MergeRemote(acc, Head(rs)), Tail(rs))

RECURSIVE AllHistory(_, _)
AllHistory(h, rs) ==
    IF rs = <<>> THEN h ELSE AllHistory(h \o Head(rs).history, Tail(rs))

RECURSIVE AllProjects(_, _)
AllProjects(ps, rs) ==
    IF rs = <<>> THEN Unique(ps)
    ELSE AllProjects(Unique(ps \o Head(rs).projects), Tail(rs))

\* { ...usage, webSearchRequests: 0, contextWindow: 0 }
BuildUsage(u) ==
    [id |-> u.id, inputTokens |-> u.inputTokens,
     outputTokens |-> u.outputTokens,
     cacheReadInputTokens |-> u.cacheReadInputTokens,
     cacheCreationInputTokens |-> u.cacheCreationInputTokens,
     costUSD |-> u.costUSD, webSearchRequests |-> 0, contextWindow |-> 0]

\* "Build merged stats cache"
BuildMergedCache(loc, acc, t) ==
    [isNull |-> FALSE, version |-> 1, lastComputedDate |-> UtcDateKey(t),
     dailyActivity |-> acc.daily, dailyModelTokens |-> <<>>,
     modelUsage |-> [i \in 1..Len(acc.models) |-> BuildUsage(acc.models[i])],
     totalSessions |-> acc.totalSessions,
     totalMessages |-> acc.totalMessages,
     longestSession |->
         IF ~loc.statsCache.isNull /\ ~loc.statsCache.longestSession.isNull
         THEN loc.statsCache.longestSession
         ELSE LongestSession("", 0, 0, Null),
     firstSessionDate |->
         IF Truthy(acc.earliestDate) THEN acc.earliestDate ELSE t,
     hourCounts |-> <<>>]

RebuildAlways(rs) == TRUE

\* if (remotes.length > 0)
RebuildsCache(rs) == Len(rs) > 0

mergeData(loc, rs, t) ==
    [statsCache |->
         IF RebuildsCache(rs)
         THEN BuildMergedCache(loc, MergeRemotes(MergeLocal(loc), rs), t)
         ELSE loc.statsCache,
     history |-> AllHistory(loc.history, rs),
     projects |-> AllProjects(loc.projects, rs)]

-----------------------------------------------------------------------------
(* calculateStreaks, countStreakBackwards, findMostActiveDay,
   buildWeekdayActivity (stats.ts).  An activity map is the sequence of its
   [date, count] entries in insertion order. *)

MapEntry(date, count) == [date |-> date, count |-> count]

\* dailyActivity.has(date)
Has(m, date) == \E i \in 1..Len(m) : m[i].date = date

\* dailyActivity.get(date) || 0
GetOrZero(m, date) ==
    IF Has(m, date)
    THEN OrZero(m[CHOOSE i \in 1..Len(m) : m[i].date = date].count)
    ELSE 0

\* dailyActivity.set(date, count): a new key goes last, an old key keeps
\* its place
MapSet(m, date, count) ==
    IF Has(m, date)
    THEN [i \in 1..Len(m) |->
             IF m[i].date = date THEN MapEntry(date, count) ELSE m[i]]
    ELSE Append(m, MapEntry(date, count))

\* Array.from(dailyActivity.keys())
Keys(m) == [i \in 1..Len(m) |-> m[i].date]

\* .filter((date) => date.startsWith(String(year)))
RECURSIVE FilterYear(_, _)
FilterYear(ds, y) ==
    IF ds = <<>> THEN <<>>
    ELSE IF YearOf(Head(ds)) = y
         THEN <<Head(ds)>> \o FilterYear(Tail(ds), y)
         ELSE FilterYear(Tail(ds), y)

\* .sort() of date keys: ascending
RECURSIVE InsertAsc(_, _)
InsertAsc(sorted, x) ==
    IF sorted = <<>> THEN <<x>>
    ELSE IF x < Head(sorted) THEN <<x>> \o sorted
         ELSE <<Head(sorted)>> \o InsertAsc(Tail(sorted), x)

RECURSIVE SortDates(_)
SortDates(ds) ==
    IF ds = <<>> THEN <<>>
    ELSE InsertAsc(SortDates(SubSeq(ds, 1, Len(ds) - 1)), ds[Len(ds)])

\* the keys are left as the map gives them
ActiveDatesUnsorted(m, y) == FilterYear(Keys(m), y)

ActiveDates(m, y) == SortDates(FilterYear(Keys(m), y))

\* Math.round((currDate.getTime() - prevDate.getTime()) / (1000*60*60*24))
DiffDays(prev, curr) ==
    LET diffTime == ParseDateKey(curr) - ParseDateKey(prev)
    IN IF diffTime >= 0 THEN Round(diffTime, DayMs)
       ELSE 0 - Round(0 - diffTime, DayMs)

\* a run that ties the maximum replaces it
StreakStepLast(st, dates, i) ==
    IF DiffDays(dates[i - 1], dates[i]) = 1
    THEN LET t == st.tempStreak + 1
         IN IF t >= st.maxStreak
            THEN [st EXCEPT !.tempStreak = t, !.maxStreak = t,
                            !.maxStreakStart = st.tempStreakStart,
                            !.maxStreakEnd = i]
            ELSE [st EXCEPT !.tempStreak = t]
    ELSE [st EXCEPT !.tempStreak = 1, !.tempStreakStart = i]

\* one iteration of the scan of adjacent pairs; i is the 1-based index of
\* the current date
StreakStep(st, dates, i) ==
    IF DiffDays(dates[i - 1], dates[i]) = 1
    THEN LET t == st.tempStreak + 1
         IN IF t > st.maxStreak
            THEN [st EXCEPT !.tempStreak = t, !.maxStreak = t,
                            !.maxStreakStart = st.tempStreakStart,
                            !.maxStreakEnd = i]
            ELSE [st EXCEPT !.tempStreak = t]
    ELSE [st EXCEPT !.tempStreak = 1, !.tempStreakStart = i]

RECURSIVE StreakScan(_, _, _)
StreakScan(st, dates, i) ==
    IF i > Len(dates) THEN st
    ELSE StreakScan(StreakStep(st, dates, i), dates, i + 1)

\* while (true) { checkDate -= 24h; if has(formatDateKey(checkDate)) ... }
RECURSIVE CountBack(_, _, _, _)
CountBack(m, z, checkDate, streak) ==
    LET prev == checkDate - DayMs
    IN IF Has(m, formatDateKey(z, prev))
       THEN CountBack(m, z, prev, streak + 1)
       ELSE streak

countStreakBackwards(m, z, startDate) == CountBack(m, z, startDate, 1)

\* the ternary that picks the day the current streak ends at
CurrentStreak(m, z, t) ==
    LET today == formatDateKey(z, t)
        yesterday == formatDateKey(z, t - DayMs)
    IN IF Has(m, today) THEN countStreakBackwards(m, z, t)
       ELSE IF Has(m, yesterday) THEN countStreakBackwards(m, z, t - DayMs)
       ELSE 0

calculateStreaks(m, y, z, t) ==
    LET activeDates == ActiveDates(m, y)
    IN IF Len(activeDates) = 0
       THEN [maxStreak |-> 0, currentStreak |-> 0, maxStreakDays |-> {}]
       ELSE LET st == StreakScan([maxStreak |-> 1, tempStreak |-> 1,
                                  tempStreakStart |-> 1,
                                  maxStreakStart |-> 1, maxStreakEnd |-> 1],
                                 activeDates, 2)
            IN [maxStreak |-> st.maxStreak,
                currentStreak |-> CurrentStreak(m, z, t),
                maxStreakDays |->
                    {activeDates[i] : i \in st.maxStreakStart..st.maxStreakEnd}]

\* a later entry that ties the maximum replaces it
MostActiveStepLast(best, e) ==
    IF e.count >= best.count /\ e.count > 0
    THEN [date |-> e.date, count |-> e.count] ELSE best

\* if (count > maxCount) { maxCount = count; maxDate = date; }
MostActiveStep(best, e) ==
    IF e.count > best.count THEN [date |-> e.date, count |-> e.count] ELSE best

RECURSIVE MostActiveScan(_, _)
MostActiveScan(best, m) ==
    IF m = <<>> THEN best
    ELSE MostActiveScan(MostActiveStep(best, Head(m)), Tail(m))

\* the scan restricted to the dates of the requested year
findMostActiveDayOfYear(m) ==
    LET best == MostActiveScan([date |-> Null, count |-> 0],
                               SelectSeq(m, LAMBDA e : YearOf(e.date) = year))
    IN IF best.date = Null THEN [isNull |-> TRUE]
       ELSE [isNull |-> FALSE, date |-> best.date, count |-> best.count]

\* null, or [date, count] (formattedDate, a display string, is left out)
findMostActiveDay(m) ==
    IF Len(m) = 0 THEN [isNull |-> TRUE]
    ELSE LET best == MostActiveScan([date |-> Null, count |-> 0], m)
         IN IF best.date = Null THEN [isNull |-> TRUE]
            ELSE [isNull |-> FALSE, date |-> best.date, count |-> best.count]

RECURSIVE WeekdayScan(_, _, _)
WeekdayScan(best, counts, i) ==
    IF i > 7 THEN best
    ELSE WeekdayScan(IF counts[i] > best.maxCount
                     THEN [mostActiveDay |-> i - 1, maxCount |-> counts[i]]
                     ELSE best,
                     counts, i + 1)

\* counts[k + 1] is the bucket of weekday k
buildWeekdayActivity(counts) ==
    LET best == WeekdayScan([mostActiveDay |-> 0, maxCount |-> 0], counts, 1)
    IN [counts |-> counts, mostActiveDay |-> best.mostActiveDay,
        maxCount |-> best.maxCount]

-----------------------------------------------------------------------------
(* calculateStats (stats.ts) *)

ZeroWeek == [i \in 1..7 |-> 0]

\* "Build daily activity map from stats cache": the map and the weekday
\* buckets after the days of the merged cache
RECURSIVE CacheActivity(_, _, _, _)
CacheActivity(acc, days, y, z) ==
    IF days = <<>> THEN acc
    ELSE LET day == Head(days)
             w == getDay(z, ParseDateKey(day.date)) + 1
         IN CacheActivity(
              IF YearOf(day.date) = y
              THEN [map |-> MapSet(acc.map, day.date, day.messageCount),
                    week |-> [acc.week EXCEPT ![w] = JsAdd(@, day.messageCount)]]
              ELSE acc,
              Tail(days), y, z)

\* "If no stats cache, build from history": one unit per history entry
RECURSIVE HistoryActivity(_, _, _)
HistoryActivity(acc, history, z) ==
    IF history = <<>> THEN acc
    ELSE LET entry == Head(history)
             dateKey == formatDateKey(z, entry.timestamp)
             w == getDay(z, entry.timestamp) + 1
         IN HistoryActivity(
              [map |-> MapSet(acc.map, dateKey, GetOrZero(acc.map, dateKey) + 1),
               week |-> [acc.week EXCEPT ![w] = @ + 1]],
              Tail(history), z)

BuildActivity(mergedStats, mergedHistory, y, z) ==
    LET fromCache ==
            IF mergedStats.isNull THEN [map |-> <<>>, week |-> ZeroWeek]
            ELSE CacheActivity([map |-> <<>>, week |-> ZeroWeek],
                               mergedStats.dailyActivity, y, z)
    IN IF Len(fromCache.map) = 0 /\ Len(mergedHistory) > 0
       THEN HistoryActivity(fromCache, mergedHistory, z)
       ELSE fromCache

\* "Check remote session files"
RECURSIVE EarliestRemote(_, _)
EarliestRemote(earliest, rs) ==
    IF rs = <<>> THEN earliest
    ELSE LET o == Head(rs).oldestSessionTimestamp
         IN EarliestRemote(
              IF Truthy(o) /\ (~Truthy(earliest) \/ o < earliest)
              THEN o ELSE earliest,
              Tail(rs))

\* earliestTimestamp after the cache, the local scan and the remote scans
EarliestTimestamp(mergedStats, oldestLocalTimestamp, rs) ==
    LET e0 == IF ~mergedStats.isNull /\ Truthy(mergedStats.firstSessionDate)
              THEN mergedStats.firstSessionDate ELSE Null
        e1 == IF Truthy(oldestLocalTimestamp)
                 /\ (~Truthy(e0) \/ oldestLocalTimestamp < e0)
              THEN oldestLocalTimestamp ELSE e0
    IN EarliestRemote(e1, rs)

RECURSIVE MinTimestamp(_)
MinTimestamp(history) ==
    IF Len(history) = 1 THEN history[1].timestamp
    ELSE Min2(Head(history).timestamp, MinTimestamp(Tail(history)))

\* firstSessionDate and daysSinceFirstSession
FirstSession(mergedStats, mergedHistory, oldestLocalTimestamp, rs, t) ==
    LET e == EarliestTimestamp(mergedStats, oldestLocalTimestamp, rs)
    IN IF Truthy(e)
       THEN [firstSessionDate |-> e,
             daysSinceFirstSession |-> Floor(t - e, DayMs)]
       ELSE IF Len(mergedHistory) > 0
            THEN [firstSessionDate |-> MinTimestamp(mergedHistory),
                  daysSinceFirstSession |->
                      Floor(t - MinTimestamp(mergedHistory), DayMs)]
            ELSE [firstSessionDate |-> t, daysSinceFirstSession |-> 0]

\* "Sum up daily activity for the year"
RECURSIVE YearTotals(_, _, _)
YearTotals(acc, days, y) ==
    IF days = <<>> THEN acc
    ELSE LET day == Head(days)
         IN YearTotals(
              IF YearOf(day.date) = y
              THEN [totalMessages |-> JsAdd(acc.totalMessages, day.messageCount),
                    totalSessions |-> JsAdd(acc.totalSessions, day.sessionCount)]
              ELSE acc,
              Tail(days), y)

\* "Sum up model usage"
RECURSIVE UsageTotals(_, _)
UsageTotals(acc, usages) ==
    IF usages = <<>> THEN acc
    ELSE LET u == Head(usages)
         IN UsageTotals(
              [totalInputTokens |-> acc.totalInputTokens + OrZero(u.inputTokens),
               totalOutputTokens |-> acc.totalOutputTokens + OrZero(u.outputTokens),
               totalCacheReadTokens |->
                   acc.totalCacheReadTokens + OrZero(u.cacheReadInputTokens),
               totalCacheWriteTokens |->
                   acc.totalCacheWriteTokens + OrZero(u.cacheCreationInputTokens),
               totalCost |-> acc.totalCost + OrZero(u.costUSD)],
              Tail(usages))

\* new Set(mergedHistory.map((h) => h.sessionId)).size
UniqueSessions(history) ==
    Cardinality({history[i].sessionId : i \in 1..Len(history)})

\* the heuristic multiplies by another factor
EstimateWrong(n) == n * 10

\* mergedHistory.length * 20
Estimate(n) == n * 20

\* totalMessages and totalSessions, with the history estimate when the
\* cache gives no message
Totals(mergedStats, mergedHistory, y) ==
    LET c == IF mergedStats.isNull
             THEN [totalMessages |-> 0, totalSessions |-> 0]
             ELSE YearTotals([totalMessages |-> 0, totalSessions |-> 0],
                             mergedStats.dailyActivity, y)
    IN IF c.totalMessages = 0 /\ Len(mergedHistory) > 0
       THEN [totalMessages |-> Estimate(Len(mergedHistory)),
             totalSessions |-> UniqueSessions(mergedHistory)]
       ELSE c

\* modelCounts: id -> usage.outputTokens || 0
ModelCounts(mergedStats) ==
    IF mergedStats.isNull THEN <<>>
    ELSE [i \in 1..Len(mergedStats.modelUsage) |->
             [key |-> mergedStats.modelUsage[i].id,
              count |-> OrZero(mergedStats.modelUsage[i].outputTokens)]]

\* .reduce((a, b) => a + b, 0) over the counts
RECURSIVE SumCounts(_)
SumCounts(cs) ==
    IF cs = <<>> THEN 0 ELSE Head(cs).count + SumCounts(Tail(cs))

\* .sort((a, b) => b[1] - a[1]): descending by count, stable
RECURSIVE InsertDesc(_, _)
InsertDesc(sorted, x) ==
    IF sorted = <<>> THEN <<x>>
    ELSE IF x.count > Head(sorted).count THEN <<x>> \o sorted
         ELSE <<Head(sorted)>> \o InsertDesc(Tail(sorted), x)

RECURSIVE SortDesc(_)
SortDesc(cs) ==
    IF cs = <<>> THEN <<>>
    ELSE InsertDesc(SortDesc(SubSeq(cs, 1, Len(cs) - 1)), cs[Len(cs)])

\* .slice(0, n)
Slice(s, n) == SubSeq(s, 1, Min2(n, Len(s)))

\* the division is not guarded
PercentageUnguarded(count, total) ==
    IF total = 0 THEN NaN ELSE Round(count * 100, total)

\* total > 0 ? Math.round((count / total) * 100) : 0
Percentage(count, total) ==
    IF total > 0 THEN Round(count * 100, total) ELSE 0

TopModelsLimit == 3
TopProjectsLimit == 4

\* the top entries are cut before the total is taken
TopModelsOfListed(mergedStats) ==
    LET counts == Slice(SortDesc(ModelCounts(mergedStats)), TopModelsLimit)
        totalModelCount == SumCounts(counts)
    IN [i \in 1..Len(counts) |->
           [id |-> counts[i].key, count |-> counts[i].count,
            percentage |-> Percentage(counts[i].count, totalModelCount)]]

\* the model ids are left in the cache's order
TopModelsUnsorted(mergedStats) ==
    LET counts == ModelCounts(mergedStats)
        totalModelCount == SumCounts(counts)
        top == Slice(counts, TopModelsLimit)
    IN [i \in 1..Len(top) |->
           [id |-> top[i].key, count |-> top[i].count,
            percentage |-> Percentage(top[i].count, totalModelCount)]]

TopModels(mergedStats) ==
    LET counts == ModelCounts(mergedStats)
        totalModelCount == SumCounts(counts)
        top == Slice(SortDesc(counts), TopModelsLimit)
    IN [i \in 1..Len(top) |->
           [id |-> top[i].key, count |-> top[i].count,
            percentage |-> Percentage(top[i].count, totalModelCount)]]

\* projectCounts: final path segment -> number of history entries
RECURSIVE ProjectCounts(_, _)
ProjectCounts(acc, history) ==
    IF history = <<>> THEN acc
    ELSE LET name == ProjectName(Head(history).project)
             i == IF \E k \in 1..Len(acc) : acc[k].key = name
                  THEN CHOOSE k \in 1..Len(acc) : acc[k].key = name
                  ELSE 0
         IN ProjectCounts(
              IF i = 0 THEN Append(acc, [key |-> name, count |-> 1])
              ELSE [acc EXCEPT ![i].count = @ + 1],
              Tail(history))

TopProjects(mergedHistory) ==
    LET totalPrompts == Len(mergedHistory)
        top == Slice(SortDesc(ProjectCounts(<<>>, mergedHistory)),
                     TopProjectsLimit)
    IN [i \in 1..Len(top) |->
           [name |-> top[i].key, promptCount |-> top[i].count,
            percentage |-> Percentage(top[i].count, totalPrompts)]]

\* the WrappedStats computed from the merged data
\* the total without the cache read/write tokens
TotalTokensUncached(use) == use.totalInputTokens + use.totalOutputTokens

\* const totalTokens = totalInputTokens + totalOutputTokens
\*     + totalCacheReadTokens + totalCacheWriteTokens
TotalTokens(use) ==
    use.totalInputTokens + use.totalOutputTokens
    + use.totalCacheReadTokens + use.totalCacheWriteTokens

computeStats(y, m, rs, oldestLocalTimestamp, t, z) ==
    LET mergedStats == m.statsCache
        mergedHistory == m.history
        act == BuildActivity(mergedStats, mergedHistory, y, z)
        first == FirstSession(mergedStats, mergedHistory,
                              oldestLocalTimestamp, rs, t)
        tot == Totals(mergedStats, mergedHistory, y)
        use == UsageTotals([totalInputTokens |-> 0, totalOutputTokens |-> 0,
                            totalCacheReadTokens |-> 0,
                            totalCacheWriteTokens |-> 0, totalCost |-> 0],
                           IF mergedStats.isNull THEN <<>>
                           ELSE mergedStats.modelUsage)
        str == calculateStreaks(act.map, y, z, t)
    IN [year |-> y,
        firstSessionDate |-> first.firstSessionDate,
        daysSinceFirstSession |-> first.daysSinceFirstSession,
        totalSessions |-> tot.totalSessions,
        totalMessages |-> tot.totalMessages,
        totalProjects |-> Len(m.projects),
        totalPrompts |-> Len(mergedHistory),
        totalInputTokens |-> use.totalInputTokens,
        totalOutputTokens |-> use.totalOutputTokens,
        totalTokens |-> TotalTokens(use),
        totalCacheReadTokens |-> use.totalCacheReadTokens,
        totalCacheWriteTokens |-> use.totalCacheWriteTokens,
        totalCost |-> use.totalCost,
        hasCostData |-> use.totalCost > 0,
        topModels |-> TopModels(mergedStats),
        topProviders |-> <<[id |-> "anthropic", count |-> tot.totalMessages,
                            percentage |-> 100]>>,
        maxStreak |-> str.maxStreak,
        currentStreak |-> str.currentStreak,
        maxStreakDays |-> str.maxStreakDays,
        dailyActivity |-> act.map,
        mostActiveDay |-> findMostActiveDay(act.map),
        weekdayActivity |-> buildWeekdayActivity(act.week),
        topProjects |-> TopProjects(mergedHistory),
        longestSession |->
            IF ~mergedStats.isNull /\ ~mergedStats.longestSession.isNull
            THEN [isNull |-> FALSE,
                  duration |-> mergedStats.longestSession.duration,
                  messageCount |-> mergedStats.longestSession.messageCount]
            ELSE [isNull |-> TRUE]]

-----------------------------------------------------------------------------
(* Inputs of the merge engine *)

\* remote datasets handed to one call
MaxRemotes == 2

\* largest per-day count of a source cache
MaxCount == 2

Idle == "idle"

\* the dates the source caches of the merge runs may list
MergeDates == {0, 1}

\* a source cache that lists the dates of D with counts built on c
SourceCache(D, c) ==
    LET ds == Ascending(D)
    IN ClaudeCodeStats(
         1,
         [i \in 1..Len(ds) |-> DailyActivity(ds[i], c + ds[i], c, 2 * c)],
         <<ModelUsage("opus", c, 2 * c, 0, c, 0)>>,
         c * Cardinality(D),
         SumSeq([i \in 1..Len(ds) |-> c + ds[i]]),
         IF c = 1 THEN NullSession ELSE LongestSession("s", c, c, 1),
         IF D = {} THEN Null ELSE DayMs * ds[1] + c)

SourceCaches ==
    {NullCache} \cup {SourceCache(D, c) : D \in SUBSET MergeDates, c \in 1..MaxCount}

SourceHistories ==
    {<<>>,
     <<HistoryEntry(30, <<"home", "a">>, "s1")>>,
     <<HistoryEntry(30, <<"home", "a">>, "s1"),
       HistoryEntry(5, <<"home", "b">>, "s2")>>}

RemoteOf(cache) ==
    LET h == IF cache.isNull
             THEN <<HistoryEntry(8, <<"srv", "a">>, "s3")>> ELSE <<>>
    IN RemoteData("h", cache, h, extractProjects(h),
                  IF cache.isNull THEN 2 ELSE Null)

RECURSIVE SeqsUpTo(_, _)
SeqsUpTo(S, n) ==
    IF n = 0 THEN {<<>>}
    ELSE LET r == SeqsUpTo(S, n - 1)
         IN r \cup {Append(q, x) : q \in {q \in r : Len(q) = n - 1}, x \in S}

IdleStreaks == activity = Idle /\ streaks = Idle /\ mostActive = Idle

IdleCli == shown = Idle /\ image = Idle /\ exitCode = Idle

IdlePricing == modelId = Idle /\ pricing = Idle

IdleRoots == roots = Idle /\ collected = Idle

IdleRemote ==
    /\ hosts = Idle /\ hostIdx = 0 /\ cur = Idle /\ results = Idle
    /\ progress = Idle /\ issued = Idle /\ inFlight = Idle

InitMerge ==
    /\ pc = "start"
    /\ \E c \in SourceCaches, h \in SourceHistories :
           local = CollectedData(c, h, extractProjects(h))
    /\ remotes \in SeqsUpTo({RemoteOf(c) : c \in SourceCaches}, MaxRemotes)
    /\ oldestLocal = Null /\ year = 0 /\ now = 100 /\ zone = UTC
    /\ merged = Idle /\ stats = Idle
    /\ IdleStreaks /\ IdleRemote /\ IdleCli /\ IdlePricing /\ IdleRoots

\* const merged = mergeData({ statsCache, history, projects }, remoteData)
MergeData ==
    /\ pc = "start"
    /\ merged' = mergeData(local, remotes, now)
    /\ pc' = "merged"
    /\ UNCHANGED <<inputVars, stats, streakVars, remoteVars, pricingVars, rootVars, cliVars>>

NextMerge == MergeData

SpecMerge == InitMerge /\ [][NextMerge]_vars

-----------------------------------------------------------------------------
(* Claims on the merge engine *)

\* the caches that contribute to a merge: the local one and every remote one
SourcesOf(loc, rs) ==
    LET all == <<loc.statsCache>> \o [i \in 1..Len(rs) |-> rs[i].statsCache]
    IN {i \in 1..Len(all) : ~all[i].isNull}

CacheOf(loc, rs, i) == IF i = 1 THEN loc.statsCache ELSE rs[i - 1].statsCache

Lists(cache, d) == \E k \in 1..Len(cache.dailyActivity) : cache.dailyActivity[k].date = d

DayOf(cache, d) ==
    cache.dailyActivity[CHOOSE k \in 1..Len(cache.dailyActivity) :
                            cache.dailyActivity[k].date = d]

RECURSIVE SumOver(_, _, _)
SumOver(S, F(_), zero) ==
    IF S = {} THEN zero
    ELSE LET x == CHOOSE x \in S : TRUE
         IN F(x) + SumOver(S \ {x}, F, zero)

Contributors(d) ==
    {i \in SourcesOf(local, remotes) : Lists(CacheOf(local, remotes, i), d)}

MergedDays == merged.statsCache.dailyActivity

\* C1: with at least one remote dataset, every date listed by some source
\* appears exactly once in the merged cache with messageCount, sessionCount
\* and toolCallCount each the sum over the sources that list it, and no other
\* date appears.
C1_AdditiveDailyMerge ==
    (pc = "merged" /\ Len(remotes) > 0) =>
        /\ \A k \in 1..Len(MergedDays) : Contributors(MergedDays[k].date) # {}
        /\ \A d \in MergeDates :
             LET S == Contributors(d)
                 M(i) == DayOf(CacheOf(local, remotes, i), d).messageCount
                 N(i) == DayOf(CacheOf(local, remotes, i), d).sessionCount
                 T(i) == DayOf(CacheOf(local, remotes, i), d).toolCallCount
             IN S # {} =>
                  /\ Cardinality({k \in 1..Len(MergedDays) :
                                     MergedDays[k].date = d}) = 1
                  /\ DayOf(merged.statsCache, d).messageCount = SumOver(S, M, 0)
                  /\ DayOf(merged.statsCache, d).sessionCount = SumOver(S, N, 0)
                  /\ DayOf(merged.statsCache, d).toolCallCount = SumOver(S, T, 0)

\* a date listed by the local cache and by two remote caches, and a date
\* listed by one source only, merged
C1_Witness ==
    /\ pc = "merged" /\ Len(remotes) = 2
    /\ Cardinality(Contributors(0)) = 3
    /\ Cardinality(Contributors(1)) = 1
    /\ DayOf(merged.statsCache, 0).messageCount > 2

\* C2: with zero remote datasets the merge returns the local cache itself
\* (null stays null), the local history and the local project set.
C2_NoRemoteNoOp ==
    (pc = "merged" /\ remotes = <<>>) =>
        /\ merged.statsCache = local.statsCache
        /\ merged.history = local.history
        /\ Range(merged.projects) = Range(local.projects)

C2_Witness ==
    /\ pc = "merged" /\ remotes = <<>>
    /\ ~local.statsCache.isNull
    /\ Len(local.statsCache.dailyActivity) = 2
    /\ local.statsCache.longestSession.isNull
    /\ Len(local.history) = 2
    /\ merged.statsCache = local.statsCache

-----------------------------------------------------------------------------
(* Inputs of calculateStats *)

\* models of a source cache
MaxModels == 4

\* entries of the local history
MaxHistory == 5

\* output-token counts of a model
TokenChoices == {0, 20, 30, 50}

ModelIdOrders ==
    {<<"A", "B", "C", "D", "E", "F">>, <<"C", "B", "A", "F", "E", "D">>}

\* a cache whose models are the first ids of an order, with the given
\* output-token counts, and one day of the requested year
ModelCache(ids, outs) ==
    ClaudeCodeStats(
      1, <<DailyActivity(1, 3, 1, 0)>>,
      [i \in 1..Len(outs) |-> ModelUsage(ids[i], 1, outs[i], 0, 0, 0)],
      1, 3, NullSession, 30)

ModelRemotes ==
    {<<>>,
     <<RemoteData("h", ClaudeCodeStats(1, <<>>,
                        <<ModelUsage("B", 0, 20, 0, 0, 0),
                          ModelUsage("R", 0, 30, 0, 0, 0)>>,
                        0, 0, NullSession, Null),
                  <<>>, <<>>, Null)>>}

InitModels ==
    /\ \E ids \in ModelIdOrders, outs \in SeqsUpTo(TokenChoices, MaxModels) :
           local = CollectedData(ModelCache(ids, outs), <<>>, <<>>)
    /\ remotes \in ModelRemotes

\* the kinds of history entry: session id and project path
EntryKinds ==
    {<<"s1", <<"home", "a">>>>, <<"s2", <<"home", "a">>>>,
     <<"s3", <<"work", "b">>>>, <<"s1", <<"c", "">>>>}

\* the history whose i-th entry is of kind ks[i], one entry every 7 hours
HistoryOf(ks) ==
    [i \in 1..Len(ks) |-> HistoryEntry(7 * i, ks[i][2], ks[i][1])]

\* caches of the history runs: none, one with days outside the requested
\* year only, one with message-less days, one with messages in the year
HistoryCaches ==
    {NullCache,
     ClaudeCodeStats(1, <<DailyActivity(YearLen + 1, 4, 2, 0)>>, <<>>,
                     2, 4, NullSession, Null),
     ClaudeCodeStats(1, <<DailyActivity(2, 0, 1, 0)>>, <<>>,
                     1, 0, NullSession, Null),
     ClaudeCodeStats(1, <<DailyActivity(2, 3, 1, 0)>>, <<>>,
                     1, 3, NullSession, Null)}

\* remote data of the history runs: none, history of the requested year,
\* history of the next year (collected without a year)
HistoryRemotes ==
    {<<>>,
     <<RemoteData("h", NullCache,
                  <<HistoryEntry(9, <<"srv", "a">>, "s9")>>,
                  <<<<"a">>>>, Null)>>,
     <<RemoteData("h", NullCache,
                  <<HistoryEntry(DayMs * YearLen + 3, <<"srv", "a">>, "s9")>>,
                  <<<<"a">>>>, Null)>>}

InitHistory ==
    /\ \E c \in HistoryCaches, ks \in SeqsUpTo(EntryKinds, MaxHistory) :
           local = CollectedData(c, HistoryOf(ks), extractProjects(HistoryOf(ks)))
    /\ remotes \in HistoryRemotes

InitStats ==
    /\ pc = "start"
    /\ InitModels \/ InitHistory
    /\ oldestLocal = Null /\ year = 0 /\ now = DayMs * 3 + 5 /\ zone = UTC
    /\ merged = Idle /\ stats = Idle
    /\ IdleStreaks /\ IdleRemote /\ IdleCli /\ IdlePricing /\ IdleRoots

\* the rest of calculateStats, after the merge
ComputeStats ==
    /\ pc = "merged"
    /\ stats' = computeStats(year, merged, remotes, oldestLocal, now, zone)
    /\ pc' = "done"
    /\ UNCHANGED <<inputVars, merged, streakVars, remoteVars, pricingVars, rootVars, cliVars>>

NextStats == MergeData \/ ComputeStats

SpecStats == InitStats /\ [][NextStats]_vars

-----------------------------------------------------------------------------
(* Claims on calculateStats *)

MergedUsage == IF merged.statsCache.isNull THEN <<>> ELSE merged.statsCache.modelUsage

\* the output-token count of the i-th model of the merged cache
OutputOf(i) == OrZero(MergedUsage[i].outputTokens)

\* sum of the output-token counts of all models of the merged cache
AllModelsOutput == SumOver(1..Len(MergedUsage), OutputOf, 0)

IsPercent(p) == p \in 0..100

\* C3 (as amended): every percentage of topModels and topProjects is an
\* integer in 0..100 (never NaN); it is 0 whenever its denominator is 0, and
\* with a nonzero denominator it is 0 only for a count below half a percent
\* of the denominator.
C3_PercentagesInRange ==
    pc = "done" =>
        /\ \A i \in 1..Len(stats.topModels) :
             LET e == stats.topModels[i]
             IN /\ IsPercent(e.percentage)
                /\ AllModelsOutput = 0 => e.percentage = 0
                /\ e.percentage = 0 =>
                       AllModelsOutput = 0 \/ 200 * e.count < AllModelsOutput
        /\ \A i \in 1..Len(stats.topProjects) :
             LET e == stats.topProjects[i]
             IN /\ IsPercent(e.percentage)
                /\ Len(merged.history) = 0 => e.percentage = 0
                /\ e.percentage = 0 =>
                       Len(merged.history) = 0
                       \/ 200 * e.promptCount < Len(merged.history)

\* C3 as stated: a percentage is 0 exactly when its denominator is 0.
C3_ZeroExactlyWhenDenominatorZero ==
    pc = "done" =>
        /\ \A i \in 1..Len(stats.topModels) :
             /\ IsPercent(stats.topModels[i].percentage)
             /\ stats.topModels[i].percentage = 0 <=> AllModelsOutput = 0
        /\ \A i \in 1..Len(stats.topProjects) :
             /\ IsPercent(stats.topProjects[i].percentage)
             /\ stats.topProjects[i].percentage = 0 <=> Len(merged.history) = 0

\* percentages computed against a zero and against a nonzero denominator
C3_Witness ==
    /\ pc = "done"
    /\ Len(stats.topModels) = 3 /\ AllModelsOutput = 0
    /\ stats.topModels[1].percentage = 0

C3_WitnessNonzero ==
    /\ pc = "done"
    /\ Len(stats.topModels) = 3 /\ AllModelsOutput > 0
    /\ stats.topModels[3].count = 0 /\ stats.topModels[3].percentage = 0
    /\ stats.topModels[1].percentage = 100

\* the merged cache has no daily entry of the requested year
NoYearEntries ==
    \/ merged.statsCache.isNull
    \/ \A i \in 1..Len(merged.statsCache.dailyActivity) :
           YearOf(merged.statsCache.dailyActivity[i].date) # year

SessionIds == {merged.history[i].sessionId : i \in 1..Len(merged.history)}

\* C6: without a cache, or with a cache that has no daily entry for the
\* requested year, a history of n > 0 entries over k session ids gives
\* totalMessages = 20 * n and totalSessions = k.
C6_HistoryFallbackTotals ==
    (pc = "done" /\ NoYearEntries /\ Len(merged.history) > 0) =>
        /\ stats.totalMessages = 20 * Len(merged.history)
        /\ stats.totalSessions = Cardinality(SessionIds)

\* 5 entries over 3 session ids give 100 messages and 3 sessions
C6_Witness ==
    /\ pc = "done" /\ NoYearEntries
    /\ Len(merged.history) = 5 /\ Cardinality(SessionIds) = 3
    /\ stats.totalMessages = 100 /\ stats.totalSessions = 3

\* C7: topModels lists min(3, number of models) distinct models of the
\* merged cache by output-token count descending, no unlisted model having
\* more than a listed one; each percentage is round(100 * count / S) with S
\* the sum over all models of the merged cache, and 0 when S = 0.
C7_TopModels ==
    pc = "done" =>
        LET top == stats.topModels
            n == Len(MergedUsage)
            listed == {top[i].id : i \in 1..Len(top)}
        IN /\ Len(top) = Min2(3, n)
           /\ Cardinality(listed) = Len(top)
           /\ \A i \in 1..Len(top) :
                /\ \E k \in 1..n :
                     MergedUsage[k].id = top[i].id /\ top[i].count = OutputOf(k)
                /\ i > 1 => top[i - 1].count >= top[i].count
                /\ top[i].percentage =
                     IF AllModelsOutput = 0 THEN 0
                     ELSE (200 * top[i].count + AllModelsOutput)
                              \div (2 * AllModelsOutput)
           /\ \A k \in 1..n :
                MergedUsage[k].id \notin listed =>
                    \A i \in 1..Len(top) : top[i].count >= OutputOf(k)

\* more than three models, the unlisted one with a nonzero count
C7_Witness ==
    /\ pc = "done"
    /\ Len(MergedUsage) = 4 /\ Len(stats.topModels) = 3
    /\ stats.topModels[1].count = 50 /\ stats.topModels[3].count = 30
    /\ AllModelsOutput = 50 + 50 + 30 + 20
    /\ stats.topModels[1].percentage = 33

\* the model usage of the merged cache is exactly {A: 50, B: 30, C: 20}
UsageIsABC ==
    /\ Len(MergedUsage) = 3
    /\ {<<MergedUsage[i].id, OutputOf(i)>> : i \in 1..3}
           = {<<"A", 50>>, <<"B", 30>>, <<"C", 20>>}

TopIds == [i \in 1..Len(stats.topModels) |-> stats.topModels[i].id]
TopCounts == [i \in 1..Len(stats.topModels) |-> stats.topModels[i].count]
TopPercentages ==
    [i \in 1..Len(stats.topModels) |-> stats.topModels[i].percentage]

\* C8 (as amended): model usage {A: 50, B: 30, C: 20} gives topModels
\* [A, B, C] with counts 50, 30, 20 and percentages 50, 30, 20 (the counts
\* sum to 100).
C8_TopModelsExample ==
    (pc = "done" /\ UsageIsABC) =>
        /\ TopIds = <<"A", "B", "C">>
        /\ TopCounts = <<50, 30, 20>>
        /\ TopPercentages = <<50, 30, 20>>

\* C8 as stated: the percentages are about 45, 27 and 18.
C8_PercentagesAbout45_27_18 ==
    (pc = "done" /\ UsageIsABC) =>
        /\ TopIds = <<"A", "B", "C">>
        /\ TopCounts = <<50, 30, 20>>
        /\ TopPercentages = <<45, 27, 18>>

\* the usage was inserted as C, B, A and comes out ranked
C8_Witness ==
    /\ pc = "done" /\ UsageIsABC
    /\ MergedUsage[1].id = "C"
    /\ TopIds = <<"A", "B", "C">>

-----------------------------------------------------------------------------
(* calculateStreaks on its own *)

\* the days of the requested year
YearDays(y) == (y * YearLen)..(y * YearLen + YearLen - 1)

\* an activity map with the dates of ds, in that order, one message each
ActivityOf(ds) == [i \in 1..Len(ds) |-> MapEntry(ds[i], 1)]

\* local time zones: UTC-5 and UTC+2, without a clock change or with one
\* (back or forward) on one of two days near the end of the year
StreakZones ==
    {[offset |-> o, dstDay |-> 0, shift |-> 0] : o \in {-5, 2}} \cup
    {[offset |-> o, dstDay |-> d, shift |-> sh] :
        o \in {-5, 2}, d \in {YearLen - 3, YearLen - 2}, sh \in {-1, 1}}

\* the first hour, the noon hour and the last hour of the last three local
\* days of the year and of the first day of the next year
NowChoices(z) ==
    {LocalDayStart(z, d) + h : d \in (YearLen - 3)..YearLen, h \in {0, 12}}
    \cup {LocalDayStart(z, d + 1) - 1 : d \in (YearLen - 3)..YearLen}

InitStreaks ==
    /\ pc = "start"
    /\ year = 0
    /\ zone \in StreakZones
    /\ now \in NowChoices(zone)
    /\ \E D \in SUBSET YearDays(0) :
           activity \in {ActivityOf(Ascending(D)), ActivityOf(Reverse(Ascending(D)))}
    /\ streaks = Idle /\ mostActive = Idle
    /\ local = Idle /\ remotes = Idle /\ oldestLocal = Null
    /\ merged = Idle /\ stats = Idle
    /\ IdleRemote /\ IdleCli /\ IdlePricing /\ IdleRoots

\* const { maxStreak, currentStreak, maxStreakDays } =
\*     calculateStreaks(dailyActivity, year)
CalculateStreaks ==
    /\ pc = "start"
    /\ streaks' = calculateStreaks(activity, year, zone, now)
    /\ pc' = "done"
    /\ UNCHANGED <<inputVars, merged, stats, activity, mostActive, remoteVars, pricingVars, rootVars, cliVars>>

NextStreaks == CalculateStreaks

SpecStreaks == InitStreaks /\ [][NextStreaks]_vars

\* the active dates of the requested year
Active == {d \in Range(Keys(activity)) : YearOf(d) = year}

\* the runs of calendar-consecutive active dates, as <<first, last>>
Runs == {r \in Active \X Active :
            r[1] <= r[2] /\ \A d \in r[1]..r[2] : d \in Active}

IsLongestRun(r) == r \in Runs /\ \A q \in Runs : q[2] - q[1] <= r[2] - r[1]

\* the earliest of the longest runs
EarliestLongestRun ==
    CHOOSE r \in Runs :
        IsLongestRun(r) /\ \A q \in Runs : IsLongestRun(q) => r[1] <= q[1]

\* C4: maxStreak is the length of the longest run of calendar-consecutive
\* active dates of the requested year and maxStreakDays is the set of dates
\* of the earliest such run; no active date gives 0 and the empty set; the
\* dates {D, D+1, D+2, D+5, D+6} give 3 and {D, D+1, D+2}.
C4_MaxStreak ==
    pc = "done" =>
        /\ Active = {} => streaks.maxStreak = 0 /\ streaks.maxStreakDays = {}
        /\ Active # {} =>
             LET r == EarliestLongestRun
             IN /\ streaks.maxStreak = r[2] - r[1] + 1
                /\ streaks.maxStreakDays = r[1]..r[2]
                /\ Cardinality(streaks.maxStreakDays) = streaks.maxStreak
        /\ Cardinality(Active) = 1 =>
             streaks.maxStreak = 1 /\ streaks.maxStreakDays = Active
        /\ \A D \in Active :
             Active = {D, D + 1, D + 2, D + 5, D + 6} =>
                 /\ streaks.maxStreak = 3
                 /\ streaks.maxStreakDays = {D, D + 1, D + 2}

\* the dates {D, D+1, D+2, D+5, D+6}, handed over in descending order
C4_Witness ==
    /\ pc = "done"
    /\ Keys(activity) = <<6, 5, 2, 1, 0>>
    /\ streaks.maxStreak = 3 /\ streaks.maxStreakDays = {0, 1, 2}

\* two longest runs: the earliest is reported
C4_WitnessTie ==
    /\ pc = "done"
    /\ Active = {0, 1, 3, 4, 6}
    /\ streaks.maxStreak = 2 /\ streaks.maxStreakDays = {0, 1}

\* the local calendar day of the wall clock
Today == formatDateKey(zone, now)

\* the number of consecutive active calendar days that end at day d
RECURSIVE RunEndingAt(_)
RunEndingAt(d) ==
    IF d \in Range(Keys(activity)) THEN 1 + RunEndingAt(d - 1) ELSE 0

\* C5: currentStreak is the number of consecutive active calendar days
\* ending at today when today is active, else ending at yesterday when
\* yesterday is active, else 0.
C5_CurrentStreak ==
    pc = "done" =>
        streaks.currentStreak =
            IF Today \in Range(Keys(activity)) THEN RunEndingAt(Today)
            ELSE IF Today - 1 \in Range(Keys(activity))
                 THEN RunEndingAt(Today - 1)
                 ELSE 0

\* the same, in the runs whose zone has no clock change
C5_CurrentStreakNoClockChange ==
    zone.shift = 0 => C5_CurrentStreak

-----------------------------------------------------------------------------
(* findMostActiveDay on its own *)

\* the dates of the activity maps of these runs
MostActiveDates == {1, 2, 3}

\* the maps over some of the dates, in any insertion order, with any counts
ActivityMaps ==
    {m \in SeqsUpTo({MapEntry(d, c) : d \in MostActiveDates, c \in 0..MaxCount},
                    Cardinality(MostActiveDates)) :
        \A i, j \in 1..Len(m) : i # j => m[i].date # m[j].date}

InitMostActive ==
    /\ pc = "start"
    /\ activity \in ActivityMaps
    /\ year = 0 /\ zone = UTC /\ now = 0
    /\ streaks = Idle /\ mostActive = Idle
    /\ local = Idle /\ remotes = Idle /\ oldestLocal = Null
    /\ merged = Idle /\ stats = Idle
    /\ IdleRemote /\ IdleCli /\ IdlePricing /\ IdleRoots

\* const mostActiveDay = findMostActiveDay(dailyActivity)
FindMostActiveDay ==
    /\ pc = "start"
    /\ mostActive' = findMostActiveDay(activity)
    /\ pc' = "done"
    /\ UNCHANGED <<inputVars, merged, stats, activity, streaks, remoteVars, pricingVars, rootVars, cliVars>>

NextMostActive == FindMostActiveDay

SpecMostActive == InitMostActive /\ [][NextMostActive]_vars

IsMaxCount(c) ==
    /\ \E i \in 1..Len(activity) : activity[i].count = c
    /\ \A i \in 1..Len(activity) : activity[i].count <= c

\* the first entry, in insertion order, that holds the maximum count
FirstMaxIndex ==
    CHOOSE i \in 1..Len(activity) :
        /\ IsMaxCount(activity[i].count)
        /\ \A j \in 1..(i - 1) : activity[j].count < activity[i].count

\* C9 as stated: for a non-empty map the result is the date holding the
\* maximum count, the first inserted one when several hold it.
C9_FirstInsertedMaximum ==
    (pc = "done" /\ Len(activity) > 0) =>
        /\ ~mostActive.isNull
        /\ mostActive.date = activity[FirstMaxIndex].date
        /\ mostActive.count = activity[FirstMaxIndex].count

\* C9 (as amended): when some count of the map is positive the result is the
\* date holding the maximum count, the first inserted one when several hold
\* it; when no count is positive the result is null.
C9_FirstInsertedPositiveMaximum ==
    (pc = "done" /\ Len(activity) > 0) =>
        IF \E i \in 1..Len(activity) : activity[i].count > 0
        THEN /\ ~mostActive.isNull
             /\ mostActive.date = activity[FirstMaxIndex].date
             /\ mostActive.count = activity[FirstMaxIndex].count
        ELSE mostActive.isNull

\* a tie on the maximum whose first inserted date is not the smallest one
C9_Witness ==
    /\ pc = "done" /\ Len(activity) = 3
    /\ activity[1].count < activity[2].count
    /\ activity[2].count = activity[3].count
    /\ activity[2].date > activity[3].date
    /\ ~mostActive.isNull /\ mostActive.date = activity[2].date

-----------------------------------------------------------------------------
(* The remote collector (remote-collector.ts) *)

\* hosts handed to collectFromAllRemoteHosts
MaxHosts == 2

HostNames == <<"h1", "h2", "h3", "h4">>

\* no remote command is being executed
NoCommand == [cmd |-> "none"]

\* A finished remote command is [status, stdout]: status "ok" (exit status
\* 0), "exit" (nonzero exit status) or "spawn" (the transport could not be
\* started); stdout is what the command printed, as the parsers see it.
Lines(lines) == [kind |-> "lines", lines |-> lines]

SshFailures ==
    {[status |-> "exit", stdout |-> [kind |-> "none"]],
     [status |-> "spawn", stdout |-> [kind |-> "none"]]}

RemoteCacheValue ==
    ClaudeCodeStats(1, <<DailyActivity(1, 2, 1, 0)>>,
                    <<ModelUsage("opus", 1, 2, 0, 0, 0)>>, 1, 2,
                    NullSession, 30)

\* cat stats-cache.json || echo '{}': the file, '{}' or text that is no JSON
CacheOutcomes ==
    SshFailures \cup
    {[status |-> "ok", stdout |-> [kind |-> "json", value |-> RemoteCacheValue]],
     [status |-> "ok", stdout |-> [kind |-> "emptyObject"]],
     [status |-> "ok", stdout |-> [kind |-> "invalid"]]}

\* a project field that is no string: .split is not a function of it
NonStringProject == <<"<non-string>">>

\* a line of history.jsonl: a record, a blank line or text that is no JSON
RecordLine(entry) == [kind |-> "record", entry |-> entry]
BlankLine == [kind |-> "blank"]
InvalidLine == [kind |-> "invalid"]

\* a line that is JSON but no record (null, a number): it has no timestamp
ValueLine == [kind |-> "value", entry |-> Null]

\* cat history.jsonl || echo '': the lines printed
HistoryOutcomes ==
    SshFailures \cup
    {[status |-> "ok", stdout |-> Lines(<<>>)],
     [status |-> "ok", stdout |-> Lines(<<InvalidLine>>)],
     [status |-> "ok", stdout |-> Lines(
         <<RecordLine(HistoryEntry(30, <<"srv", "a">>, "r1")),
           InvalidLine,
           BlankLine,
           RecordLine(HistoryEntry(DayMs * YearLen + 3, <<"srv", "b">>, "r2")),
           RecordLine(HistoryEntry(40, <<"">>, "r3"))>>)],
     [status |-> "ok", stdout |-> Lines(
         <<RecordLine(HistoryEntry(30, NonStringProject, "r1"))>>)]}

\* grep ... | sort | head -1: a timestamp, nothing, or other text
OldestOutcomes ==
    SshFailures \cup
    {[status |-> "ok", stdout |-> [kind |-> "timestamp", value |-> 7]],
     [status |-> "ok", stdout |-> [kind |-> "none"]],
     [status |-> "ok", stdout |-> [kind |-> "invalid"]]}

\* execSSH: the promise resolves with stdout on exit status 0 and rejects
\* otherwise
SshThrows(r) == r.status # "ok"

\* a failed command is handed on as a rejection
RemoteStatsCacheRethrows(r) ==
    IF SshThrows(r) THEN [threw |-> TRUE]
    ELSE IF r.stdout.kind = "json" THEN [threw |-> FALSE, value |-> r.stdout.value]
    ELSE [threw |-> FALSE, value |-> NullCache]

\* collectRemoteStatsCache, given the finished command: every failure
\* (rejection, JSON.parse error, no version) gives null
RemoteStatsCache(r) ==
    IF SshThrows(r) THEN [threw |-> FALSE, value |-> NullCache]
    ELSE IF r.stdout.kind = "json" THEN [threw |-> FALSE, value |-> r.stdout.value]
    ELSE [threw |-> FALSE, value |-> NullCache]

\* the loop over the lines: blank and invalid lines and, with a year,
\* records of another year are skipped; so is, with a year, a JSON value
\* without timestamp (reading the timestamp of null throws into the catch,
\* and the year of an invalid date is NaN)
RECURSIVE ParseHistoryLines(_, _, _)
ParseHistoryLines(lines, y, z) ==
    IF lines = <<>> THEN <<>>
    ELSE LET l == Head(lines)
             rest == ParseHistoryLines(Tail(lines), y, z)
         IN IF l.kind \notin {"record", "value"} THEN rest
            ELSE IF y # Null /\ l.kind = "value" THEN rest
            ELSE IF y # Null /\ YearOf(formatDateKey(z, l.entry.timestamp)) # y
                 THEN rest
                 ELSE <<l.entry>> \o rest

\* collectRemoteHistory, given the finished command
RemoteHistory(r, y, z) ==
    IF SshThrows(r) THEN <<>> ELSE ParseHistoryLines(r.stdout.lines, y, z)

\* findOldestSessionTimestamp, given the finished command
OldestSessionTimestamp(r) ==
    IF SshThrows(r) THEN Null
    ELSE IF r.stdout.kind = "timestamp" THEN r.stdout.value
    ELSE Null

\* extractProjects throws a TypeError on a project that is no string
ExtractProjectsThrows(history) ==
    \E i \in 1..Len(history) : history[i].project = NonStringProject

InitRemote ==
    /\ pc = "loop"
    /\ \E n \in 0..MaxHosts : hosts = SubSeq(HostNames, 1, n)
    /\ hostIdx = 0
    /\ cur = Idle
    /\ results = <<>>
    /\ progress = <<>>
    /\ issued = <<>>
    /\ inFlight = NoCommand
    /\ year \in {Null, 0} /\ zone = UTC /\ now = 0
    /\ local = Idle /\ remotes = Idle /\ oldestLocal = Null
    /\ merged = Idle /\ stats = Idle
    /\ IdleStreaks /\ IdleCli /\ IdlePricing /\ IdleRoots

otherVars == <<inputVars, merged, stats, streakVars, hosts, cliVars,
               pricingVars, rootVars>>

\* execSSH(host, command): the command starts
Spawn(command) ==
    /\ inFlight = NoCommand
    /\ inFlight' = [cmd |-> command, host |-> hosts[hostIdx]]
    /\ issued' = Append(issued, [cmd |-> command, host |-> hosts[hostIdx],
                                  status |-> "running"])

\* the command ends with r
Exited(r) ==
    /\ inFlight # NoCommand
    /\ inFlight' = NoCommand
    /\ issued' = [issued EXCEPT ![Len(issued)].status = r.status]

\* cur holds the locals of collectFromRemoteHost for the host at hand: the
\* host, the values fetched so far, and output, the finished commands of
\* the three collectors in the order they ended; they are gone (Idle) when
\* the iteration for the host ends
\* for (const host of hosts) { onProgress?.(host, "start"); ...
NextHost ==
    /\ pc = "loop" /\ hostIdx < Len(hosts)
    /\ hostIdx' = hostIdx + 1
    /\ progress' = Append(progress, <<hosts[hostIdx + 1], "start">>)
    /\ cur' = [host |-> hosts[hostIdx + 1], output |-> <<>>]
    /\ pc' = "statsCache"
    /\ UNCHANGED <<otherVars, results, issued, inFlight>>

\* const statsCache = await collectRemoteStatsCache(host): the command
FetchStatsCache ==
    /\ pc = "statsCache"
    /\ Spawn("statsCache")
    /\ pc' = "awaitStatsCache"
    /\ UNCHANGED <<otherVars, hostIdx, cur, results, progress>>

\* ... and its result
StatsCacheFetched ==
    /\ pc = "awaitStatsCache"
    /\ \E r \in CacheOutcomes :
         /\ Exited(r)
         /\ LET c == RemoteStatsCache(r)
            IN IF c.threw
               THEN /\ pc' = "catch"
                    /\ cur' = [cur EXCEPT !.output = Append(@, r)]
               ELSE /\ pc' = "history"
                    /\ cur' = [host |-> cur.host, statsCache |-> c.value,
                               output |-> Append(cur.output, r)]
    /\ UNCHANGED <<otherVars, hostIdx, results, progress>>

\* const history = await collectRemoteHistory(host, year): the command
FetchHistory ==
    /\ pc = "history"
    /\ Spawn("history")
    /\ pc' = "awaitHistory"
    /\ UNCHANGED <<otherVars, hostIdx, cur, results, progress>>

\* ... its result, and const projects = extractProjects(history)
HistoryFetched ==
    /\ pc = "awaitHistory"
    /\ \E r \in HistoryOutcomes :
         /\ Exited(r)
         /\ LET h == RemoteHistory(r, year, zone)
            IN IF ExtractProjectsThrows(h)
               THEN /\ pc' = "catch"
                    /\ cur' = [cur EXCEPT !.output = Append(@, r)]
               ELSE /\ pc' = "oldest"
                    /\ cur' = [host |-> cur.host, statsCache |-> cur.statsCache,
                               history |-> h, projects |-> extractProjects(h),
                               output |-> Append(cur.output, r)]
    /\ UNCHANGED <<otherVars, hostIdx, results, progress>>

\* const oldestSessionTimestamp = await findOldestSessionTimestamp(host)
FetchOldest ==
    /\ pc = "oldest"
    /\ Spawn("oldest")
    /\ pc' = "awaitOldest"
    /\ UNCHANGED <<otherVars, hostIdx, cur, results, progress>>

\* ... and its result: collectFromRemoteHost returns
OldestFetched ==
    /\ pc = "awaitOldest"
    /\ \E r \in OldestOutcomes :
         /\ Exited(r)
         /\ cur' = [host |-> cur.host, statsCache |-> cur.statsCache,
                    history |-> cur.history, projects |-> cur.projects,
                    oldestSessionTimestamp |-> OldestSessionTimestamp(r),
                    output |-> Append(cur.output, r)]
    /\ pc' = "push"
    /\ UNCHANGED <<otherVars, hostIdx, results, progress>>

\* results.push(data); onProgress?.(host, "done")
HostDone ==
    /\ pc = "push"
    /\ results' = Append(results,
                          RemoteData(cur.host, cur.statsCache, cur.history,
                                     cur.projects, cur.oldestSessionTimestamp))
    /\ progress' = Append(progress, <<hosts[hostIdx], "done">>)
    /\ cur' = Idle
    /\ pc' = "loop"
    /\ UNCHANGED <<otherVars, hostIdx, issued, inFlight>>

\* the catch left empty: the failure of the host is not reported
HostErrorSilent ==
    /\ pc = "catch"
    /\ cur' = Idle
    /\ pc' = "loop"
    /\ UNCHANGED <<otherVars, hostIdx, results, progress, issued, inFlight>>

\* catch (error) { onProgress?.(host, "error") }
HostError ==
    /\ pc = "catch"
    /\ progress' = Append(progress, <<hosts[hostIdx], "error">>)
    /\ cur' = Idle
    /\ pc' = "loop"
    /\ UNCHANGED <<otherVars, hostIdx, results, issued, inFlight>>

\* return results
ReturnResults ==
    /\ pc = "loop" /\ hostIdx = Len(hosts)
    /\ pc' = "returned"
    /\ UNCHANGED <<otherVars, hostIdx, cur, results, progress, issued, inFlight>>

NextRemote ==
    \/ NextHost
    \/ FetchStatsCache
    \/ StatsCacheFetched
    \/ FetchHistory
    \/ HistoryFetched
    \/ FetchOldest
    \/ OldestFetched
    \/ HostDone
    \/ HostError
    \/ ReturnResults

SpecRemote == InitRemote /\ [][NextRemote]_vars

\* Every await of the call is on a promise that settles: ssh is started with
\* ConnectTimeout=10 and BatchMode=yes and runs cat or a grep pipeline, so
\* the command ends, and the event loop then runs the continuation.
\* The call is made without a year: the year only selects the history
\* records kept for a host.
InitRemoteFair == InitRemote /\ year = Null

SpecRemoteFair == InitRemoteFair /\ [][NextRemote]_vars /\ WF_vars(NextRemote)

\* the commands issued for a host
CommandsOf(h) == {i \in 1..Len(issued) : issued[i].host = h}

\* some remote command of the host ended with a nonzero exit status or a
\* transport error
HostFailed(h) == \E i \in CommandsOf(h) : issued[i].status \in {"exit", "spawn"}

ResultHosts == {results[i].host : i \in 1..Len(results)}

Reported(h, status) == \E i \in 1..Len(progress) : progress[i] = <<h, status>>

\* C10: a host whose remote commands fail is excluded from the returned
\* list and reported with status error, the hosts after it are still
\* processed, and the returned list holds exactly the hosts whose fetch
\* succeeded.
C10_FailedHostExcluded ==
    pc = "returned" =>
        /\ \A h \in Range(hosts) : Reported(h, "start")
        /\ \A h \in Range(hosts) :
             HostFailed(h) => h \notin ResultHosts /\ Reported(h, "error")
        /\ \A h \in Range(hosts) : ~HostFailed(h) => h \in ResultHosts

\* what the code does: a host whose three commands all failed is returned,
\* with no data, and reported done
C10_FailedHostReturnedEmpty ==
    pc = "returned" =>
        \A i \in 1..Len(hosts) :
            (\A k \in CommandsOf(hosts[i]) : issued[k].status # "ok")
                /\ Cardinality(CommandsOf(hosts[i])) = 3
            => /\ Reported(hosts[i], "done")
               /\ \E k \in 1..Len(results) :
                    results[k] = RemoteData(hosts[i], NullCache, <<>>, <<>>, Null)

\* the output of a command that none of the parsers can read: text that is
\* no JSON, or lines of which none is JSON
Unparsable(out) ==
    \/ out.kind = "invalid"
    \/ /\ out.kind = "lines" /\ out.lines # <<>>
       /\ \A i \in 1..Len(out.lines) : out.lines[i].kind = "invalid"

\* a remote artifact read that failed: nonzero exit status, transport error
\* or unparsable output
ReadFailed(r) == r.status \in {"exit", "spawn"} \/ Unparsable(r.stdout)

\* the records of the output that belong to the history asked for
WantedRecords(out, y) ==
    {i \in 1..Len(out.lines) :
        /\ out.lines[i].kind = "record"
        /\ y # Null => YearOf(UtcDateKey(out.lines[i].entry.timestamp)) = y}

\* C11: a failed artifact read (nonzero exit status, transport error,
\* unparsable output) never reaches the catch of collectFromAllRemoteHosts
\* and gives the absent value of that artifact only (null cache, empty
\* history, null timestamp); each artifact of the data returned for a host
\* is what its own command printed, whatever happened to the other two.
C11_ArtifactFailureIsolated ==
    /\ pc = "catch" => ~ReadFailed(cur.output[Len(cur.output)])
    /\ pc = "push" =>
         LET c == cur.output[1]
             h == cur.output[2]
             o == cur.output[3]
         IN /\ Len(cur.output) = 3
            /\ ReadFailed(c) => cur.statsCache = NullCache
            /\ ReadFailed(h) => cur.history = <<>> /\ cur.projects = <<>>
            /\ ReadFailed(o) => cur.oldestSessionTimestamp = Null
            /\ ~ReadFailed(c) =>
                 cur.statsCache = IF c.stdout.kind = "json" THEN c.stdout.value
                                  ELSE NullCache
            /\ ~ReadFailed(h) =>
                 /\ Len(cur.history) = Cardinality(WantedRecords(h.stdout, year))
                 /\ Range(cur.history) =
                      {h.stdout.lines[i].entry : i \in WantedRecords(h.stdout, year)}
            /\ ~ReadFailed(o) =>
                 cur.oldestSessionTimestamp =
                     IF o.stdout.kind = "timestamp" THEN o.stdout.value ELSE Null

\* the cache read printed text that is no JSON and the scan for the oldest
\* timestamp ended with a nonzero exit status, while the history was read
C11_Witness ==
    /\ pc = "push"
    /\ cur.output[1].status = "ok" /\ cur.output[1].stdout.kind = "invalid"
    /\ cur.output[3].status = "exit"
    /\ cur.statsCache = NullCache /\ cur.oldestSessionTimestamp = Null
    /\ Len(cur.history) = 3

\* the hosts of the progress reports with the given status, in the order
\* of the reports
RECURSIVE ReportedWith(_, _)
ReportedWith(reports, status) ==
    IF reports = <<>> THEN <<>>
    ELSE IF Head(reports)[2] = status
         THEN <<Head(reports)[1]>> \o ReportedWith(Tail(reports), status)
         ELSE ReportedWith(Tail(reports), status)

\* the reports made so far are start and then done or error for the first
\* host, then for the second, and so on; the list collected so far holds
\* the hosts reported done, in that order
ProgressProtocol ==
    /\ Len(progress) <= 2 * Len(hosts)
    /\ \A i \in 1..Len(progress) :
         /\ progress[i][1] = hosts[(i + 1) \div 2]
         /\ i % 2 = 1 => progress[i][2] = "start"
         /\ i % 2 = 0 => progress[i][2] \in {"done", "error"}
    /\ [i \in 1..Len(results) |-> results[i].host] = ReportedWith(progress, "done")
    /\ pc = "returned" => Len(progress) = 2 * Len(hosts)

\* C19: the hosts are handled in input order; every host gets a start
\* report; each start is followed by exactly one done or error report of
\* the same host before the start of the next host; the call always
\* returns, and the list returned holds, in input order, exactly the hosts
\* reported done.
C19_ProgressProtocol == []ProgressProtocol /\ <>(pc = "returned")

\* of two hosts the first was reported error and the second done
C19_Witness ==
    /\ pc = "returned"
    /\ progress = <<<<"h1", "start">>, <<"h1", "error">>,
                    <<"h2", "start">>, <<"h2", "done">>>>
    /\ Len(results) = 1 /\ results[1].host = "h2"

\* the commands issued for a host, in the order they were started
CommandSeq(h) ==
    LET own == SelectSeq(issued, LAMBDA e : e.host = h)
    IN [i \in 1..Len(own) |-> own[i].cmd]

ThreeCommands == <<"statsCache", "history", "oldest">>

\* the iteration for the k-th host has ended
Handled(k) == k < hostIdx \/ (k = hostIdx /\ pc \in {"loop", "returned"})

\* at most one command runs, and it is the one started last: a command is
\* started only after the commands before it have ended
OneInFlight ==
    /\ Cardinality({i \in 1..Len(issued) : issued[i].status = "running"}) <= 1
    /\ \A i \in 1..Len(issued) : issued[i].status = "running" => i = Len(issued)
    /\ inFlight # NoCommand <=>
         (issued # <<>> /\ issued[Len(issued)].status = "running")

\* C20: at most one remote command is in flight at any time; for each host
\* exactly three remote commands are issued, in the order cache, history,
\* scan for the oldest timestamp, each started after the one before it has
\* ended, and no further command is issued for the project names.
C20_StrictlySequential ==
    /\ OneInFlight
    /\ \A k \in 1..Len(hosts) :
         IF Handled(k) THEN CommandSeq(hosts[k]) = ThreeCommands
         ELSE /\ Len(CommandSeq(hosts[k])) <= 3
              /\ CommandSeq(hosts[k]) = SubSeq(ThreeCommands, 1, Len(CommandSeq(hosts[k])))

\* what the code does: three commands for a host reported done, and the
\* first two only for a host reported error, whose history made
\* extractProjects throw before the scan was started
C20_SequentialUntilThrow ==
    /\ OneInFlight
    /\ \A k \in 1..Len(hosts) :
         IF Handled(k)
         THEN /\ Reported(hosts[k], "done") => CommandSeq(hosts[k]) = ThreeCommands
              /\ Reported(hosts[k], "error") =>
                   CommandSeq(hosts[k]) = SubSeq(ThreeCommands, 1, 2)
              /\ Reported(hosts[k], "done") \/ Reported(hosts[k], "error")
         ELSE /\ Len(CommandSeq(hosts[k])) <= 3
              /\ CommandSeq(hosts[k]) = SubSeq(ThreeCommands, 1, Len(CommandSeq(hosts[k])))

\* two hosts were handled, the first of them with two commands only
C20_WitnessThrow ==
    /\ pc = "returned" /\ Len(hosts) = 2
    /\ CommandSeq("h1") = SubSeq(ThreeCommands, 1, 2)
    /\ CommandSeq("h2") = ThreeCommands
    /\ issued[2].status = "ok"

-----------------------------------------------------------------------------
(* The command line (index.ts): main, from the check for local data on *)

NoImage == "none"

\* the storage roots hold a cache or a history: some root can be listed
HasLocalData == ~local.statsCache.isNull \/ local.history # <<>>

\* the test for empty stats left out
NeverEmptyStats(s) == FALSE

\* if (stats.totalSessions === 0 && stats.totalPrompts === 0)
IsEmptyStats(s) == s.totalSessions = 0 /\ s.totalPrompts = 0

\* main calls calculateStats(requestedYear): no remote data
InitMain ==
    /\ pc = "main"
    /\ InitModels \/ InitHistory
    /\ remotes = <<>>
    /\ oldestLocal = Null /\ year = 0 /\ now = DayMs * 3 + 5 /\ zone = UTC
    /\ merged = Idle /\ stats = Idle
    /\ IdleStreaks /\ IdleRemote
    /\ shown = <<>> /\ image = NoImage /\ exitCode = Null
    /\ IdlePricing /\ IdleRoots

\* const dataExists = await checkClaudeCodeDataExists(); ... spinner.start
CheckData ==
    /\ pc = "main"
    /\ \E dataExists \in BOOLEAN :
         /\ HasLocalData => dataExists
         /\ IF dataExists
            THEN /\ shown' = Append(shown, "spinner.start: Scanning your Claude Code history...")
                 /\ exitCode' = exitCode
                 /\ pc' = "start"
            ELSE /\ shown' = Append(shown, "cancel: Claude Code data not found")
                 /\ exitCode' = 0
                 /\ pc' = "exited"
    /\ UNCHANGED <<inputVars, merged, stats, streakVars, remoteVars, pricingVars, rootVars, image>>

\* stats = await calculateStats(requestedYear) rejects: a collector of the
\* Promise.all rejected
StatsThrows ==
    /\ pc = "start"
    /\ pc' = "statsThrew"
    /\ UNCHANGED <<inputVars, merged, stats, streakVars, remoteVars, pricingVars, rootVars, cliVars>>

\* catch (error) { spinner.stop(...); p.cancel(`Error: ${error}`); process.exit(1) }
ReportError ==
    /\ pc = "statsThrew"
    /\ shown' = shown \o <<"spinner.stop: Failed to collect stats", "cancel: Error: error">>
    /\ exitCode' = 1
    /\ pc' = "exited"
    /\ UNCHANGED <<inputVars, merged, stats, streakVars, remoteVars, pricingVars, rootVars, image>>

\* if (stats.totalSessions === 0 && stats.totalPrompts === 0) { ... process.exit(0) }
ReportNoData ==
    /\ pc = "done" /\ IsEmptyStats(stats)
    /\ shown' = shown \o <<"spinner.stop: No data found",
                           "cancel: No Claude Code activity found for year">>
    /\ exitCode' = 0
    /\ pc' = "exited"
    /\ UNCHANGED <<inputVars, merged, stats, streakVars, remoteVars, pricingVars, rootVars, image>>

\* spinner.stop("Found your stats!"); p.note(summary); spinner.start(...)
ShowSummary ==
    /\ pc = "done" /\ ~IsEmptyStats(stats)
    /\ shown' = shown \o <<"spinner.stop: Found your stats!", "note: summary",
                           "spinner.start: Generating your wrapped image...">>
    /\ pc' = "generateImage"
    /\ UNCHANGED <<inputVars, merged, stats, streakVars, remoteVars, pricingVars, rootVars, image, exitCode>>

\* image = await generateImage(stats), or its catch
GenerateImage ==
    /\ pc = "generateImage"
    /\ \E ok \in BOOLEAN :
         IF ok
         THEN /\ image' = "png"
              /\ shown' = Append(shown, "spinner.stop: Image generated!")
              /\ exitCode' = exitCode
              /\ pc' = "share"
         ELSE /\ image' = image
              /\ shown' = shown \o <<"spinner.stop: Failed to generate image",
                                     "cancel: Error generating image: error">>
              /\ exitCode' = 1
              /\ pc' = "exited"
    /\ UNCHANGED <<inputVars, merged, stats, streakVars, remoteVars, pricingVars, rootVars>>

\* display, clipboard, save, upload and share prompts, then process.exit(0)
Share ==
    /\ pc = "share"
    /\ \E cancelled \in BOOLEAN :
         shown' = Append(shown, IF cancelled THEN "outro: Cancelled"
                                ELSE "outro: Share your wrapped!")
    /\ exitCode' = 0
    /\ pc' = "exited"
    /\ UNCHANGED <<inputVars, merged, stats, streakVars, remoteVars, pricingVars, rootVars, image>>

NextMain ==
    \/ CheckData
    \/ MergeData
    \/ ComputeStats
    \/ StatsThrows
    \/ ReportError
    \/ ReportNoData
    \/ ShowSummary
    \/ GenerateImage
    \/ Share

SpecMain == InitMain /\ [][NextMain]_vars

Shows(text) == \E i \in 1..Len(shown) : shown[i] = text

\* C12: when calculateStats returns 0 sessions and 0 prompts, main reports
\* that no activity was found and exits with status 0; when calculateStats
\* throws, main shows the error and exits with status 1; in both cases no
\* summary was printed and no image generated.  An image is generated only
\* after calculateStats returned stats that are not empty.
C12_ExitFlow ==
    /\ [](pc \in {"start", "merged", "done", "statsThrew"} =>
            ~Shows("note: summary") /\ image = NoImage)
    /\ [][/\ (pc = "done" /\ stats.totalSessions = 0 /\ stats.totalPrompts = 0) =>
                /\ pc' = "exited" /\ exitCode' = 0 /\ image' = NoImage
                /\ Shows("cancel: No Claude Code activity found for year")'
                /\ ~Shows("note: summary")'
          /\ pc = "statsThrew" =>
                /\ pc' = "exited" /\ exitCode' = 1 /\ image' = NoImage
                /\ Shows("cancel: Error: error")'
                /\ ~Shows("note: summary")'
          /\ image' # image =>
                /\ pc = "generateImage"
                /\ ~(stats.totalSessions = 0 /\ stats.totalPrompts = 0)
          /\ pc = "exited" => pc' = "exited"]_vars

\* main has exited with status 0 on stats without sessions and prompts
C12_Witness ==
    /\ pc = "exited" /\ exitCode = 0 /\ image = NoImage
    /\ Shows("cancel: No Claude Code activity found for year")

\* main has exited with status 1 after calculateStats threw
C12_WitnessError ==
    /\ pc = "exited" /\ exitCode = 1 /\ Shows("cancel: Error: error")

-----------------------------------------------------------------------------
(* Model pricing (pricing.ts) *)

\* A string is the sequence of its characters.  Rates are in hundredths of a
\* dollar per million tokens (18.75 is 1875), so a cost is in units of 1e-8
\* dollar and every amount is an integer.

UpperCase ==
    <<"A", "B", "C", "D", "E", "F", "G", "H", "I", "J", "K", "L", "M", "N", "O", "P", "Q", "R", "S", "T", "U", "V", "W", "X", "Y", "Z">>

LowerCase ==
    <<"a", "b", "c", "d", "e", "f", "g", "h", "i", "j", "k", "l", "m", "n", "o", "p", "q", "r", "s", "t", "u", "v", "w", "x", "y", "z">>

\* the lower-case form of a character
LowerChar(c) ==
    IF \E k \in 1..Len(UpperCase) : UpperCase[k] = c
    THEN LowerCase[CHOOSE k \in 1..Len(UpperCase) : UpperCase[k] = c]
    ELSE c

\* String.prototype.toLowerCase
RECURSIVE toLowerCase(_)
toLowerCase(str) ==
    IF str = <<>> THEN <<>>
    ELSE <<LowerChar(Head(str))>> \o toLowerCase(Tail(str))

\* String.prototype.includes
includes(str, sub) ==
    \E i \in 0..(Len(str) - Len(sub)) : SubSeq(str, i + 1, i + Len(sub)) = sub

ModelPricing(input, output, cacheWrite, cacheRead) ==
    [inputPerMillion |-> input, outputPerMillion |-> output,
     cacheWritePerMillion |-> cacheWrite, cacheReadPerMillion |-> cacheRead]

\* "claude-opus-4-20250514"
K_opus_4 ==
    <<"c", "l", "a", "u", "d", "e", "-", "o", "p", "u", "s", "-", "4", "-", "2", "0", "2", "5", "0", "5", "1", "4">>

\* "claude-opus-4-5-20251101"
K_opus_4_5 ==
    <<"c", "l", "a", "u", "d", "e", "-", "o", "p", "u", "s", "-", "4", "-", "5", "-", "2", "0", "2", "5", "1", "1", "0", "1">>

\* "claude-sonnet-4-20250514"
K_sonnet_4 ==
    <<"c", "l", "a", "u", "d", "e", "-", "s", "o", "n", "n", "e", "t", "-", "4", "-", "2", "0", "2", "5", "0", "5", "1", "4">>

\* "claude-sonnet-4-5-20241022"
K_sonnet_4_5 ==
    <<"c", "l", "a", "u", "d", "e", "-", "s", "o", "n", "n", "e", "t", "-", "4", "-", "5", "-", "2", "0", "2", "4", "1", "0", "2", "2">>

\* "claude-3-5-sonnet-20241022"
K_3_5_sonnet_1022 ==
    <<"c", "l", "a", "u", "d", "e", "-", "3", "-", "5", "-", "s", "o", "n", "n", "e", "t", "-", "2", "0", "2", "4", "1", "0", "2", "2">>

\* "claude-3-5-sonnet-20240620"
K_3_5_sonnet_0620 ==
    <<"c", "l", "a", "u", "d", "e", "-", "3", "-", "5", "-", "s", "o", "n", "n", "e", "t", "-", "2", "0", "2", "4", "0", "6", "2", "0">>

\* "claude-3-5-haiku-20241022"
K_3_5_haiku ==
    <<"c", "l", "a", "u", "d", "e", "-", "3", "-", "5", "-", "h", "a", "i", "k", "u", "-", "2", "0", "2", "4", "1", "0", "2", "2">>

\* "claude-3-opus-20240229"
K_3_opus ==
    <<"c", "l", "a", "u", "d", "e", "-", "3", "-", "o", "p", "u", "s", "-", "2", "0", "2", "4", "0", "2", "2", "9">>

\* "claude-3-sonnet-20240229"
K_3_sonnet ==
    <<"c", "l", "a", "u", "d", "e", "-", "3", "-", "s", "o", "n", "n", "e", "t", "-", "2", "0", "2", "4", "0", "2", "2", "9">>

\* "claude-3-haiku-20240307"
K_3_haiku ==
    <<"c", "l", "a", "u", "d", "e", "-", "3", "-", "h", "a", "i", "k", "u", "-", "2", "0", "2", "4", "0", "3", "0", "7">>

\* const MODEL_PRICING: Record<string, ModelPricing> = { ... }, in source order
MODEL_PRICING ==
    <<[key |-> K_opus_4, value |-> ModelPricing(1500, 7500, 1875, 150)],
      [key |-> K_opus_4_5, value |-> ModelPricing(1500, 7500, 1875, 150)],
      [key |-> K_sonnet_4, value |-> ModelPricing(300, 1500, 375, 30)],
      [key |-> K_sonnet_4_5, value |-> ModelPricing(300, 1500, 375, 30)],
      [key |-> K_3_5_sonnet_1022, value |-> ModelPricing(300, 1500, 375, 30)],
      [key |-> K_3_5_sonnet_0620, value |-> ModelPricing(300, 1500, 375, 30)],
      [key |-> K_3_5_haiku, value |-> ModelPricing(80, 400, 100, 8)],
      [key |-> K_3_opus, value |-> ModelPricing(1500, 7500, 1875, 150)],
      [key |-> K_3_sonnet, value |-> ModelPricing(300, 1500, 375, 30)],
      [key |-> K_3_haiku, value |-> ModelPricing(25, 125, 30, 3)]>>

\* MODEL_PRICING is an object literal: besides its own keys it answers to the
\* property names it inherits from Object.prototype
ObjectPrototypeKeys ==
    {<<"c", "o", "n", "s", "t", "r", "u", "c", "t", "o", "r">>,
     <<"t", "o", "S", "t", "r", "i", "n", "g">>,
     <<"v", "a", "l", "u", "e", "O", "f">>,
     <<"h", "a", "s", "O", "w", "n", "P", "r", "o", "p", "e", "r", "t", "y">>,
     <<"i", "s", "P", "r", "o", "t", "o", "t", "y", "p", "e", "O", "f">>,
     <<"p", "r", "o", "p", "e", "r", "t", "y", "I", "s", "E", "n", "u", "m", "e", "r", "a", "b", "l", "e">>,
     <<"t", "o", "L", "o", "c", "a", "l", "e", "S", "t", "r", "i", "n", "g">>,
     <<"_", "_", "p", "r", "o", "t", "o", "_", "_">>}

\* an inherited property: a function or object that has none of the four
\* rates (each reads as undefined)
InheritedProperty == ModelPricing(Null, Null, Null, Null)

\* if (MODEL_PRICING[key]): the property exists (every value is truthy)
HasProperty(key) ==
    \/ \E i \in 1..Len(MODEL_PRICING) : MODEL_PRICING[i].key = key
    \/ key \in ObjectPrototypeKeys

\* MODEL_PRICING[key] of a property that exists
Lookup(key) ==
    IF \E i \in 1..Len(MODEL_PRICING) : MODEL_PRICING[i].key = key
    THEN MODEL_PRICING[CHOOSE i \in 1..Len(MODEL_PRICING) :
                           MODEL_PRICING[i].key = key].value
    ELSE InheritedProperty

\* const DEFAULT_PRICING
DEFAULT_PRICING == ModelPricing(300, 1500, 375, 30)

\* the exact match only: no family rules
getModelPricingExactOnly(id) ==
    IF HasProperty(id) THEN Lookup(id) ELSE DEFAULT_PRICING

\* the rule for opus tried before the rule for opus-4
getModelPricingOpusFirst(id) ==
    LET lowerModel == toLowerCase(id)
    IN IF HasProperty(id) THEN Lookup(id)
       ELSE IF includes(lowerModel, <<"o", "p", "u", "s">>) THEN Lookup(K_3_opus)
       ELSE IF includes(lowerModel, <<"s", "o", "n", "n", "e", "t", "-", "4">>)
               \/ includes(lowerModel, <<"s", "o", "n", "n", "e", "t", "4">>)
            THEN Lookup(K_sonnet_4)
       ELSE IF includes(lowerModel, <<"h", "a", "i", "k", "u">>)
               /\ includes(lowerModel, <<"3", "-", "5">>)
            THEN Lookup(K_3_5_haiku)
       ELSE IF includes(lowerModel, <<"h", "a", "i", "k", "u">>) THEN Lookup(K_3_haiku)
       ELSE IF includes(lowerModel, <<"s", "o", "n", "n", "e", "t">>) THEN Lookup(K_3_5_sonnet_1022)
       ELSE DEFAULT_PRICING

getModelPricing(id) ==
    LET lowerModel == toLowerCase(id)
    IN IF HasProperty(id) THEN Lookup(id)
       ELSE IF includes(lowerModel, <<"o", "p", "u", "s", "-", "4">>)
               \/ includes(lowerModel, <<"o", "p", "u", "s", "4">>)
            THEN Lookup(K_opus_4)
       ELSE IF includes(lowerModel, <<"s", "o", "n", "n", "e", "t", "-", "4">>)
               \/ includes(lowerModel, <<"s", "o", "n", "n", "e", "t", "4">>)
            THEN Lookup(K_sonnet_4)
       ELSE IF includes(lowerModel, <<"o", "p", "u", "s">>) THEN Lookup(K_3_opus)
       ELSE IF includes(lowerModel, <<"h", "a", "i", "k", "u">>)
               /\ includes(lowerModel, <<"3", "-", "5">>)
            THEN Lookup(K_3_5_haiku)
       ELSE IF includes(lowerModel, <<"h", "a", "i", "k", "u">>) THEN Lookup(K_3_haiku)
       ELSE IF includes(lowerModel, <<"s", "o", "n", "n", "e", "t">>) THEN Lookup(K_3_5_sonnet_1022)
       ELSE DEFAULT_PRICING

\* a * b on numbers, where a missing operand makes the product NaN
JsMul(a, b) == IF a \in {Null, NaN} \/ b \in {Null, NaN} THEN NaN ELSE a * b

\* calculateCost(modelId, inputTokens, outputTokens, cacheWriteTokens,
\* cacheReadTokens)
calculateCost(id, inputTokens, outputTokens, cacheWriteTokens, cacheReadTokens) ==
    LET p == getModelPricing(id)
    IN JsAdd(JsAdd(JsAdd(JsMul(inputTokens, p.inputPerMillion),
                         JsMul(outputTokens, p.outputPerMillion)),
                   JsMul(cacheWriteTokens, p.cacheWritePerMillion)),
             JsMul(cacheReadTokens, p.cacheReadPerMillion))

\* calculateTotalCost(modelUsage): the source's cost when positive, else
\* the cost computed from the tokens
RECURSIVE calculateTotalCost(_)
calculateTotalCost(usages) ==
    IF usages = <<>> THEN 0
    ELSE LET u == Head(usages)
             c == IF Truthy(u.costUSD) /\ u.costUSD > 0 THEN u.costUSD
                  ELSE calculateCost(u.id, u.inputTokens, u.outputTokens,
                                     u.cacheCreationInputTokens,
                                     u.cacheReadInputTokens)
         IN JsAdd(c, calculateTotalCost(Tail(usages)))

-----------------------------------------------------------------------------
(* calculateStats on caches with token and cost data *)

\* model ids of the cost runs: two of the table and one unknown to it
CostIds == {K_opus_4, K_3_haiku, <<"g", "p", "t">>}

\* usages of a model: each token count present or 0 (the cache-read count
\* also missing), the cost missing, 0 or 500 (0.000005 dollar)
CostUsages(ids) ==
    {ModelUsage(id, i, o, cr, cw, c) :
        id \in ids, i \in {0, 3}, o \in {0, 5}, cr \in {Null, 0, 7},
        cw \in {0, 11}, c \in {Null, 0, 500}}

CostCache(usages) ==
    ClaudeCodeStats(1, <<DailyActivity(1, 3, 1, 0)>>, usages, 1, 3,
                    NullSession, 30)

\* the second model of a local cache
SecondUsages ==
    {ModelUsage(K_3_haiku, 3, 5, 7, 11, 0),
     ModelUsage(K_3_haiku, 0, 0, 0, 0, 500),
     ModelUsage(<<"g", "p", "t">>, 3, 0, Null, 0, Null)}

CostRemotes ==
    {<<>>,
     <<RemoteData("h", NullCache, <<>>, <<>>, Null)>>,
     <<RemoteData("h", CostCache(<<ModelUsage(K_opus_4, 3, 5, 7, 11, 0)>>),
                  <<>>, <<>>, Null)>>,
     <<RemoteData("h", CostCache(<<ModelUsage(K_opus_4, 0, 5, 0, 0, 500)>>),
                  <<>>, <<>>, Null)>>,
     <<RemoteData("h", CostCache(<<ModelUsage(K_3_haiku, 3, 5, Null, 11, Null)>>),
                  <<>>, <<>>, Null)>>}

InitCost ==
    /\ pc = "start"
    /\ \/ local = CollectedData(NullCache, <<>>, <<>>)
       \/ \E u \in CostUsages(CostIds) :
              local = CollectedData(CostCache(<<u>>), <<>>, <<>>)
       \/ \E u \in CostUsages({K_opus_4}), v \in SecondUsages :
              local = CollectedData(CostCache(<<u, v>>), <<>>, <<>>)
    /\ remotes \in CostRemotes
    /\ oldestLocal = Null /\ year = 0 /\ now = DayMs * 3 + 5 /\ zone = UTC
    /\ merged = Idle /\ stats = Idle
    /\ IdleStreaks /\ IdleRemote
    /\ IdleCli /\ IdlePricing /\ IdleRoots

NextCost == MergeData \/ ComputeStats

SpecCost == InitCost /\ [][NextCost]_vars

\* C13: totalCost is the sum, over the models of the merged cache, of the
\* source's costUSD when it is positive and of the cost computed from the
\* model's four token counts and the pricing table otherwise, and
\* hasCostData tells whether that sum is positive.
C13_TotalCostUsesPricing ==
    pc = "done" =>
        /\ stats.totalCost = calculateTotalCost(MergedUsage)
        /\ stats.hasCostData = (calculateTotalCost(MergedUsage) > 0)

RECURSIVE SourceCosts(_)
SourceCosts(usages) ==
    IF usages = <<>> THEN 0
    ELSE OrZero(Head(usages).costUSD) + SourceCosts(Tail(usages))

\* what the code does: totalCost is the sum of the costs the sources give,
\* and a model without one contributes 0 whatever its tokens
C13_TotalCostIsSourceCost ==
    pc = "done" =>
        /\ stats.totalCost = SourceCosts(MergedUsage)
        /\ stats.hasCostData = (SourceCosts(MergedUsage) > 0)

RECURSIVE SumField(_, _)
SumField(usages, field) ==
    IF usages = <<>> THEN 0
    ELSE OrZero(Head(usages)[field]) + SumField(Tail(usages), field)

\* C14: totalTokens is the sum of the four token totals of the same result,
\* each of which is the sum of that count over the models of the merged
\* cache: the cache read and write tokens are part of the total.
C14_TotalTokens ==
    pc = "done" =>
        /\ stats.totalTokens = stats.totalInputTokens + stats.totalOutputTokens
                               + stats.totalCacheReadTokens
                               + stats.totalCacheWriteTokens
        /\ stats.totalInputTokens = SumField(MergedUsage, "inputTokens")
        /\ stats.totalOutputTokens = SumField(MergedUsage, "outputTokens")
        /\ stats.totalCacheReadTokens = SumField(MergedUsage, "cacheReadInputTokens")
        /\ stats.totalCacheWriteTokens =
               SumField(MergedUsage, "cacheCreationInputTokens")

\* a merged cache of two sources with cache read and write tokens
C14_Witness ==
    /\ pc = "done" /\ Len(remotes) = 1 /\ Len(MergedUsage) = 2
    /\ stats.totalCacheReadTokens = 14 /\ stats.totalCacheWriteTokens = 22
    /\ stats.totalTokens = 52

-----------------------------------------------------------------------------
(* Claims on the source of the daily activity *)

MergedDaysOrNone ==
    IF merged.statsCache.isNull THEN <<>> ELSE merged.statsCache.dailyActivity

\* the messages the merged cache records for the requested year
RECURSIVE YearMessages(_, _)
YearMessages(days, y) ==
    IF days = <<>> THEN 0
    ELSE (IF YearOf(Head(days).date) = y THEN Head(days).messageCount ELSE 0)
         + YearMessages(Tail(days), y)

\* the activity map and the weekday histogram hold the counts the merged
\* cache records for the requested year, and nothing else
ActivityIsFromCache ==
    /\ \A i \in 1..Len(stats.dailyActivity) :
         \E k \in 1..Len(MergedDaysOrNone) :
            /\ YearOf(MergedDaysOrNone[k].date) = year
            /\ MergedDaysOrNone[k].date = stats.dailyActivity[i].date
            /\ MergedDaysOrNone[k].messageCount = stats.dailyActivity[i].count
    /\ SumSeq(stats.weekdayActivity.counts) = YearMessages(MergedDaysOrNone, year)

\* C15: whenever the merged cache is present, the activity map and the
\* weekday histogram hold only counts recorded in the cache for dates of the
\* requested year; the recount of one unit per history entry is used only
\* when the merged cache is absent.
C15_RecountOnlyWithoutCache ==
    (pc = "done" /\ ~merged.statsCache.isNull) => ActivityIsFromCache

\* what the code does: the recount is used whenever the cache gave no date
\* of the requested year and there is history, with or without a cache
C15_RecountWhenNoDayOfYear ==
    pc = "done" =>
        IF NoYearEntries /\ Len(merged.history) > 0
        THEN /\ SumSeq(stats.weekdayActivity.counts) = Len(merged.history)
             /\ SumSeq([i \in 1..Len(stats.dailyActivity) |->
                           stats.dailyActivity[i].count]) = Len(merged.history)
        ELSE ActivityIsFromCache

-----------------------------------------------------------------------------
(* The local collector (collector.ts): collectStatsCache over the storage
   roots *)

\* const CLAUDE_DATA_PATHS = [~/.claude, ~/.config/claude]
CLAUDE_DATA_PATHS == <<".claude", ".config/claude">>

\* A storage root is [path, listable, file]: whether readdir succeeds, and
\* its stats-cache.json: missing, text that is no JSON, or a cache
MissingFile == [kind |-> "missing"]
InvalidFile == [kind |-> "invalid"]
CacheFile(cache) == [kind |-> "cache", value |-> cache]

\* getValidClaudePaths: the roots that can be listed, in order
RECURSIVE getValidClaudePaths(_)
getValidClaudePaths(rs) ==
    IF rs = <<>> THEN <<>>
    ELSE (IF Head(rs).listable THEN <<Head(rs)>> ELSE <<>>)
         \o getValidClaudePaths(Tail(rs))

\* "Merge daily activity": the map of the days merged so far, then the days
\* of content summed in or inserted
CollectorMergeDays(mergedDays, contentDays) ==
    MergeRemoteDays(SetLocalDays(<<>>, mergedDays), contentDays)

\* "Merge model usage": a known model takes "+= usage.field || 0" on each
\* field, a new model is copied as it is
CollectorMergeModel(m, usage) ==
    LET i == ModelIndex(m, usage.id)
    IN IF i # 0
       THEN [m EXCEPT
               ![i].inputTokens = JsAdd(@, OrZero(usage.inputTokens)),
               ![i].outputTokens = JsAdd(@, OrZero(usage.outputTokens)),
               ![i].cacheReadInputTokens =
                   JsAdd(@, OrZero(usage.cacheReadInputTokens)),
               ![i].cacheCreationInputTokens =
                   JsAdd(@, OrZero(usage.cacheCreationInputTokens)),
               ![i].costUSD = JsAdd(@, OrZero(usage.costUSD))]
       ELSE Append(m, usage)

RECURSIVE CollectorMergeModels(_, _)
CollectorMergeModels(m, usages) ==
    IF usages = <<>> THEN m
    ELSE CollectorMergeModels(CollectorMergeModel(m, Head(usages)), Tail(usages))

\* content.firstSessionDate < mergedStats.firstSessionDate: false when one
\* of them is missing
EarlierDate(a, b) == a # Null /\ b # Null /\ a < b

\* the else branch of the loop body: content merged into mergedStats
CollectorMerge(mergedStats, content) ==
    [mergedStats EXCEPT
        !.dailyActivity = CollectorMergeDays(@, content.dailyActivity),
        !.modelUsage = CollectorMergeModels(@, content.modelUsage),
        !.totalSessions = JsAdd(@, content.totalSessions),
        !.totalMessages = JsAdd(@, content.totalMessages),
        !.firstSessionDate =
            IF EarlierDate(content.firstSessionDate, @)
            THEN content.firstSessionDate ELSE @]

\* one turn of the loop over the valid paths: acc is [mergedStats, read],
\* read being the paths whose cache file the loop has tried to read
ReadRoot(acc, root) ==
    [mergedStats |->
        IF root.file.kind # "cache" THEN acc.mergedStats
        ELSE IF acc.mergedStats.isNull THEN root.file.value
        ELSE CollectorMerge(acc.mergedStats, root.file.value),
     read |-> Append(acc.read, root.path)]

RECURSIVE ReadRoots(_, _)
ReadRoots(acc, rs) ==
    IF rs = <<>> THEN acc ELSE ReadRoots(ReadRoot(acc, Head(rs)), Tail(rs))

collectStatsCache(rs) ==
    ReadRoots([mergedStats |-> NullCache, read |-> <<>>], getValidClaudePaths(rs))

\* caches of a root: models with and without a cost, shared and own dates
RootCaches ==
    {ClaudeCodeStats(1, <<DailyActivity(1, 2, 1, 0)>>,
                     <<ModelUsage("opus", 3, 5, 0, 0, 500)>>,
                     1, 2, NullSession, 30),
     ClaudeCodeStats(2, <<DailyActivity(2, 4, 2, 1), DailyActivity(1, 1, 1, 1)>>,
                     <<ModelUsage("haiku", 2, 0, 0, 0, 0),
                       ModelUsage("opus", 1, 1, 1, 1, Null)>>,
                     3, 5, LongestSession("s", 9, 4, 12), 10),
     ClaudeCodeStats(3, <<>>, <<ModelUsage("opus", 0, 7, 0, 2, 0)>>,
                     0, 0, NullSession, 50),
     ClaudeCodeStats(4, <<DailyActivity(3, 1, 1, 0)>>,
                     <<ModelUsage("sonnet", 1, 1, 0, 0, 100)>>,
                     1, 1, NullSession, 30)}

RootFiles == {MissingFile, InvalidFile} \cup {CacheFile(c) : c \in RootCaches}

InitRoots ==
    /\ pc = "start"
    /\ \E l \in [1..Len(CLAUDE_DATA_PATHS) -> BOOLEAN],
          f \in [1..Len(CLAUDE_DATA_PATHS) -> RootFiles] :
          roots = [i \in 1..Len(CLAUDE_DATA_PATHS) |->
                      [path |-> CLAUDE_DATA_PATHS[i], listable |-> l[i],
                       file |-> f[i]]]
    /\ collected = Idle
    /\ local = Idle /\ remotes = Idle /\ oldestLocal = Null
    /\ year = 0 /\ now = 0 /\ zone = UTC
    /\ merged = Idle /\ stats = Idle
    /\ IdleStreaks /\ IdleRemote /\ IdleCli /\ IdlePricing

\* const statsCache = await collectStatsCache()
CollectStatsCache ==
    /\ pc = "start"
    /\ collected' = collectStatsCache(roots)
    /\ pc' = "done"
    /\ UNCHANGED <<inputVars, merged, stats, streakVars, remoteVars, cliVars,
                   pricingVars, roots>>

NextRoots == CollectStatsCache

SpecRoots == InitRoots /\ [][NextRoots]_vars

\* the roots that hold a readable cache, and their caches, in order
Readable == {i \in 1..Len(roots) : roots[i].listable /\ roots[i].file.kind = "cache"}

ReadableCaches ==
    LET ok == getValidClaudePaths(roots)
    IN SelectSeq([i \in 1..Len(ok) |-> ok[i].file], LAMBDA f : f.kind = "cache")

RECURSIVE SumDays(_, _, _)
SumDays(files, date, field) ==
    IF files = <<>> THEN 0
    ELSE LET days == Head(files).value.dailyActivity
             i == DayIndex(days, date)
         IN (IF i = 0 THEN 0 ELSE days[i][field]) + SumDays(Tail(files), date, field)

RECURSIVE SumUsage(_, _, _)
SumUsage(files, id, field) ==
    IF files = <<>> THEN 0
    ELSE LET us == Head(files).value.modelUsage
             i == ModelIndex(us, id)
         IN (IF i = 0 THEN 0 ELSE OrZero(us[i][field])) + SumUsage(Tail(files), id, field)

RECURSIVE SumTotal(_, _)
SumTotal(files, field) ==
    IF files = <<>> THEN 0 ELSE Head(files).value[field] + SumTotal(Tail(files), field)

DatesOf(files) ==
    UNION {{f.value.dailyActivity[k].date : k \in 1..Len(f.value.dailyActivity)} :
              f \in Range(files)}

IdsOf(files) ==
    UNION {{f.value.modelUsage[k].id : k \in 1..Len(f.value.modelUsage)} :
              f \in Range(files)}

\* the result lists each date and each model of the readable caches once,
\* with the sums over those caches (a field no cache gives counts as 0)
IsAdditiveMerge(result, files) ==
    /\ Len(result.dailyActivity) = Cardinality(DatesOf(files))
    /\ \A d \in DatesOf(files) :
         \E k \in 1..Len(result.dailyActivity) :
            /\ result.dailyActivity[k].date = d
            /\ \A field \in {"messageCount", "sessionCount", "toolCallCount"} :
                 result.dailyActivity[k][field] = SumDays(files, d, field)
    /\ Len(result.modelUsage) = Cardinality(IdsOf(files))
    /\ \A id \in IdsOf(files) :
         \E k \in 1..Len(result.modelUsage) :
            /\ result.modelUsage[k].id = id
            /\ \A field \in {"inputTokens", "outputTokens", "cacheReadInputTokens",
                             "cacheCreationInputTokens", "costUSD"} :
                 OrZero(result.modelUsage[k][field]) = SumUsage(files, id, field)
    /\ result.totalSessions = SumTotal(files, "totalSessions")
    /\ result.totalMessages = SumTotal(files, "totalMessages")
    /\ \A f \in Range(files) : result.firstSessionDate <= f.value.firstSessionDate
    /\ \E f \in Range(files) : result.firstSessionDate = f.value.firstSessionDate

\* C16: every root that can be listed is read, in the order of
\* CLAUDE_DATA_PATHS; the result is null exactly when no root has a readable
\* cache, it is the cache itself when one root has one, and with several it
\* is their additive merge: per-date counts, per-model token and cost
\* fields, totalSessions and totalMessages are the sums over the roots and
\* firstSessionDate is the earliest.
C16_AdditiveRootMerge ==
    pc = "done" =>
        /\ collected.read =
             SelectSeq(CLAUDE_DATA_PATHS,
                       LAMBDA q : \E i \in 1..Len(roots) :
                                     roots[i].path = q /\ roots[i].listable)
        /\ collected.mergedStats.isNull <=> Readable = {}
        /\ Len(ReadableCaches) = 1 =>
             collected.mergedStats = ReadableCaches[1].value
        /\ Len(ReadableCaches) > 1 =>
             IsAdditiveMerge(collected.mergedStats, ReadableCaches)

\* every model of the first readable cache that a later one lists too has
\* all its fields
FirstIsComplete ==
    \A k \in 1..Len(ReadableCaches[1].value.modelUsage) :
        LET u == ReadableCaches[1].value.modelUsage[k]
        IN (\E j \in 2..Len(ReadableCaches) : u.id \in IdsOf(<<ReadableCaches[j]>>))
           => \A field \in {"inputTokens", "outputTokens", "cacheReadInputTokens",
                            "cacheCreationInputTokens", "costUSD"} :
                 u[field] # Null

\* what the code does: the merge is additive as long as the models of the
\* first cache bring every field; "+= usage.field || 0" guards the added
\* value only
C16_AdditiveMergeOfCompleteFirst ==
    (pc = "done" /\ Len(ReadableCaches) > 1 /\ FirstIsComplete) =>
        IsAdditiveMerge(collected.mergedStats, ReadableCaches)

-----------------------------------------------------------------------------
(* getModelPricing on its own *)

\* fragments a model id of the runs is made of
MaxParts == 3

IdParts ==
    {<<"c", "l", "a", "u", "d", "e", "-">>,
     <<"o", "p", "u", "s">>,
     <<"O", "p", "u", "s">>,
     <<"s", "o", "n", "n", "e", "t">>,
     <<"S", "O", "N", "N", "E", "T">>,
     <<"h", "a", "i", "k", "u">>,
     <<"-", "4">>,
     <<"4">>,
     <<"3", "-", "5">>,
     <<"-">>,
     <<"g", "p", "t">>}

RECURSIVE Concat(_)
Concat(parts) == IF parts = <<>> THEN <<>> ELSE Head(parts) \o Concat(Tail(parts))

TableKeys == {MODEL_PRICING[i].key : i \in 1..Len(MODEL_PRICING)}

ModelIds ==
    TableKeys \cup ObjectPrototypeKeys
    \cup {Concat(parts) : parts \in SeqsUpTo(IdParts, MaxParts)}

InitPricing ==
    /\ pc = "start"
    /\ modelId \in ModelIds
    /\ pricing = Idle
    /\ local = Idle /\ remotes = Idle /\ oldestLocal = Null
    /\ year = 0 /\ now = 0 /\ zone = UTC
    /\ merged = Idle /\ stats = Idle
    /\ IdleStreaks /\ IdleRemote /\ IdleCli /\ IdleRoots

\* const pricing = getModelPricing(modelId)
GetModelPricing ==
    /\ pc = "start"
    /\ pricing' = getModelPricing(modelId)
    /\ pc' = "done"
    /\ UNCHANGED <<inputVars, merged, stats, streakVars, remoteVars, cliVars,
                   modelId, rootVars>>

NextPricing == GetModelPricing

SpecPricing == InitPricing /\ [][NextPricing]_vars

\* the rates of the families
OpusRate == ModelPricing(1500, 7500, 1875, 150)
SonnetRate == ModelPricing(300, 1500, 375, 30)
Haiku35Rate == ModelPricing(80, 400, 100, 8)
Haiku3Rate == ModelPricing(25, 125, 30, 3)

Contains(text) == includes(toLowerCase(modelId), text)

\* the family rules in their order of priority: <<matches, rate>>
FamilyRules ==
    <<<<Contains(<<"o", "p", "u", "s", "-", "4">>) \/ Contains(<<"o", "p", "u", "s", "4">>), OpusRate>>,
      <<Contains(<<"s", "o", "n", "n", "e", "t", "-", "4">>) \/ Contains(<<"s", "o", "n", "n", "e", "t", "4">>), SonnetRate>>,
      <<Contains(<<"o", "p", "u", "s">>), OpusRate>>,
      <<Contains(<<"h", "a", "i", "k", "u">>) /\ Contains(<<"3", "-", "5">>), Haiku35Rate>>,
      <<Contains(<<"h", "a", "i", "k", "u">>), Haiku3Rate>>,
      <<Contains(<<"s", "o", "n", "n", "e", "t">>), SonnetRate>>>>

\* the rate the priority gives: the table's entry for a key of the table,
\* else the first matching rule's rate, else the default
RateByPriority ==
    IF modelId \in TableKeys
    THEN MODEL_PRICING[CHOOSE i \in 1..Len(MODEL_PRICING) :
                           MODEL_PRICING[i].key = modelId].value
    ELSE LET rules == FamilyRules
             matching == {i \in 1..Len(rules) : rules[i][1]}
         IN IF matching # {}
            THEN rules[CHOOSE i \in matching : \A j \in matching : i <= j][2]
            ELSE SonnetRate

HasRates(p) ==
    \A field \in DOMAIN p : p[field] \notin {Null, NaN}

\* C17: getModelPricing gives every id a rate: the table's entry for a key
\* of the table, else the rate of the first matching family rule (opus-4,
\* sonnet-4, opus, haiku with 3-5, haiku, sonnet, case-insensitively), else
\* the default rate; no id gets an undefined rate.
C17_PricingPriority ==
    pc = "done" => HasRates(pricing) /\ pricing = RateByPriority

\* what the code does: the priority holds for every id that is no property
\* name inherited from Object.prototype
C17_PricingPriorityOfOtherIds ==
    (pc = "done" /\ modelId \notin ObjectPrototypeKeys) =>
        HasRates(pricing) /\ pricing = RateByPriority

-----------------------------------------------------------------------------
(* Claims on the most active day of calculateStats *)

\* c is the largest count of the activity map of the result
IsLargestCount(c) ==
    /\ \E i \in 1..Len(stats.dailyActivity) : stats.dailyActivity[i].count = c
    /\ \A i \in 1..Len(stats.dailyActivity) : stats.dailyActivity[i].count <= c

\* a non-null mostActiveDay is an entry of the map with the largest count
MostActiveIsLargest ==
    ~stats.mostActiveDay.isNull =>
        /\ IsLargestCount(stats.mostActiveDay.count)
        /\ \E i \in 1..Len(stats.dailyActivity) :
             stats.dailyActivity[i] =
                 MapEntry(stats.mostActiveDay.date, stats.mostActiveDay.count)

\* C18 as stated: mostActiveDay is null when the activity map is empty and
\* non-null for every non-empty map, also when all its counts are 0, and
\* holds the largest count over all entries of the map, of any year.
C18_NonNullForEveryNonEmptyMap ==
    pc = "done" =>
        /\ stats.mostActiveDay.isNull <=> Len(stats.dailyActivity) = 0
        /\ MostActiveIsLargest

\* C18 (as amended): mostActiveDay is null when the activity map is empty or
\* none of its counts is positive, and otherwise holds the largest count
\* over all entries of the map, of any year.
C18_NonNullForPositiveCounts ==
    pc = "done" =>
        /\ stats.mostActiveDay.isNull <=>
             \A i \in 1..Len(stats.dailyActivity) : stats.dailyActivity[i].count <= 0
        /\ MostActiveIsLargest

\* the most active day is a date outside the requested year
C18_Witness ==
    /\ pc = "done" /\ ~stats.mostActiveDay.isNull
    /\ YearOf(stats.mostActiveDay.date) # year

\* a map with one date and count 0: mostActiveDay is null
C18_WitnessZero ==
    /\ pc = "done" /\ Len(stats.dailyActivity) = 1
    /\ stats.dailyActivity[1].count = 0 /\ stats.mostActiveDay.isNull

-----------------------------------------------------------------------------
(* The first session date of calculateStats *)

\* a cache with the given firstSessionDate and one day of the requested year
DatedCache(firstSessionDate) ==
    ClaudeCodeStats(1, <<DailyActivity(1, 3, 1, 0)>>, <<>>, 1, 3,
                    NullSession, firstSessionDate)

\* firstSessionDate of a cache: absent, or an instant
CacheDates == {Null, 5, 20}

\* result of a transcript scan: nothing, an instant, or an instant later
\* than the clock of the process (the clock of a remote host runs ahead)
ScanDates == {Null, 10, 90}

DatedCaches == {NullCache} \cup {DatedCache(d) : d \in CacheDates}

DatedHistories == {<<>>, <<HistoryEntry(30, <<"home", "a">>, "s1"),
                           HistoryEntry(8, <<"home", "b">>, "s2")>>}

DatedRemotes ==
    {RemoteData("h", c, <<>>, <<>>, o) : c \in DatedCaches, o \in ScanDates}

InitFirst ==
    /\ pc = "start"
    /\ \E c \in DatedCaches, h \in DatedHistories :
           local = CollectedData(c, h, extractProjects(h))
    /\ remotes \in SeqsUpTo(DatedRemotes, MaxRemotes)
    /\ oldestLocal \in ScanDates
    /\ year = 0 /\ now = 50 /\ zone = UTC
    /\ merged = Idle /\ stats = Idle
    /\ IdleStreaks /\ IdleRemote /\ IdleCli /\ IdlePricing /\ IdleRoots

NextFirst == MergeData \/ ComputeStats

SpecFirst == InitFirst /\ [][NextFirst]_vars

\* the first-session dates the caches provide
CacheCandidates ==
    {c.firstSessionDate :
        c \in {c \in {local.statsCache} \cup {remotes[i].statsCache : i \in 1..Len(remotes)} :
                  ~c.isNull}} \ {Null}

\* the oldest timestamps the transcript scans provide
ScanCandidates ==
    ({oldestLocal} \cup {remotes[i].oldestSessionTimestamp : i \in 1..Len(remotes)}) \ {Null}

Candidates == CacheCandidates \cup ScanCandidates

Earliest(S) == CHOOSE x \in S : \A y \in S : x <= y

\* firstSessionDate of calculateStats with the remote datasets in the
\* opposite order
FirstSessionReversed ==
    FirstSession(mergeData(local, Reverse(remotes), now).statsCache,
                 mergeData(local, Reverse(remotes), now).history,
                 oldestLocal, Reverse(remotes), now).firstSessionDate

\* C21: the firstSessionDate reported is the earliest of all candidates
\* (the first-session date of the local and of every remote cache, the
\* oldest local transcript timestamp and the oldest transcript timestamp of
\* every remote, with or without cache), whatever the order of the sources.
C21_EarliestOfAllCandidates ==
    (pc = "done" /\ Candidates # {}) =>
        /\ stats.firstSessionDate = Earliest(Candidates)
        /\ FirstSessionReversed = stats.firstSessionDate

\* mergeData stands the current time in for a first-session date when no
\* cache provides one and no remote with a cache provides a timestamp
MergeDefaultsToNow ==
    /\ Len(remotes) > 0
    /\ CacheCandidates = {}
    /\ \A i \in 1..Len(remotes) :
         remotes[i].statsCache.isNull \/ remotes[i].oldestSessionTimestamp = Null

\* what the code does: the current time that mergeData stands in takes part
\* in the minimum
C21_EarliestOfCandidatesAndDefault ==
    (pc = "done" /\ Candidates # {}) =>
        /\ stats.firstSessionDate =
             Earliest(Candidates \cup (IF MergeDefaultsToNow THEN {now} ELSE {}))
        /\ FirstSessionReversed = stats.firstSessionDate

\* a remote without cache provides the earliest candidate
C21_WitnessRemoteScan ==
    /\ pc = "done" /\ Len(remotes) = 2
    /\ remotes[2].statsCache.isNull /\ remotes[2].oldestSessionTimestamp = 10
    /\ ~remotes[1].statsCache.isNull /\ remotes[1].statsCache.firstSessionDate = 20
    /\ oldestLocal = 90
    /\ stats.firstSessionDate = 10

-----------------------------------------------------------------------------
(* Claims on the per-model usage of the merged cache *)

UsageFields ==
    {"inputTokens", "outputTokens", "cacheReadInputTokens",
     "cacheCreationInputTokens", "costUSD"}

\* the model usage records of all source caches, the local one first
SourceUsages ==
    (IF local.statsCache.isNull THEN <<>> ELSE local.statsCache.modelUsage)
    \o Concat([i \in 1..Len(remotes) |->
                  IF remotes[i].statsCache.isNull THEN <<>>
                  ELSE remotes[i].statsCache.modelUsage])

\* sum of a field over the source records of a model, a missing field
\* counting as 0
FieldSum(id, field) ==
    SumField(SelectSeq(SourceUsages, LAMBDA u : u.id = id), field)

MergedRecord(id) == MergedUsage[ModelIndex(MergedUsage, id)]

\* C22: with at least one remote dataset, every model id of a source is in
\* the merged cache and each numeric field of its record is the sum of that
\* field over the sources that list the model, a field missing from a source
\* record (local or remote) counting as 0; no merged field is undefined or
\* NaN.
C22_UsageFieldsAreSums ==
    (pc = "merged" /\ Len(remotes) > 0) =>
        \A k \in 1..Len(SourceUsages) :
            LET id == SourceUsages[k].id
            IN /\ ModelIndex(MergedUsage, id) # 0
               /\ \A f \in UsageFields :
                    /\ MergedRecord(id)[f] \notin {Null, NaN}
                    /\ MergedRecord(id)[f] = FieldSum(id, f)

\* the local record of a model lacks the field
LocalLacks(id, f) ==
    /\ ~local.statsCache.isNull
    /\ \E i \in 1..Len(local.statsCache.modelUsage) :
         /\ local.statsCache.modelUsage[i].id = id
         /\ local.statsCache.modelUsage[i][f] = Null

RemoteLists(id) ==
    \E i \in 1..Len(remotes) :
        /\ ~remotes[i].statsCache.isNull
        /\ ModelIndex(remotes[i].statsCache.modelUsage, id) # 0

\* what the code does: the zero default covers the remote records only; a
\* field the local record lacks stays undefined, and becomes NaN when a
\* remote lists the model
C22_UsageFieldsOfRemotesDefault ==
    (pc = "merged" /\ Len(remotes) > 0) =>
        \A k \in 1..Len(SourceUsages) :
            LET id == SourceUsages[k].id
            IN /\ ModelIndex(MergedUsage, id) # 0
               /\ \A f \in UsageFields :
                    MergedRecord(id)[f] =
                        IF ~LocalLacks(id, f) THEN FieldSum(id, f)
                        ELSE IF RemoteLists(id) THEN NaN ELSE Null

\* a remote record without cache-read count and cost is merged with zeros
C22_WitnessRemoteDefault ==
    /\ pc = "merged" /\ Len(remotes) = 1
    /\ ~remotes[1].statsCache.isNull /\ ~local.statsCache.isNull
    /\ remotes[1].statsCache.modelUsage[1].costUSD = Null
    /\ ModelIndex(local.statsCache.modelUsage, K_3_haiku) = 0
    /\ MergedRecord(K_3_haiku).costUSD = 0
    /\ MergedRecord(K_3_haiku).cacheReadInputTokens = 0

-----------------------------------------------------------------------------
(* mergeData and calculateStats under the permutations of the remotes *)

OrderLocals ==
    {NullCache,
     ClaudeCodeStats(1, <<DailyActivity(1, 2, 1, 0)>>,
                     <<ModelUsage("A", 1, 20, 0, 0, 0)>>, 1, 2, NullSession, 40),
     ClaudeCodeStats(1, <<DailyActivity(2, 1, 1, 0), DailyActivity(3, 1, 1, 0)>>,
                     <<ModelUsage("C", 1, 5, 0, 0, 0)>>, 1, 2, NullSession, Null)}

\* remote datasets: two whose days and models tie, one that shares a day
\* and a model with the first, and one without cache
OrderRemotes ==
    {RemoteData("h1",
                ClaudeCodeStats(1, <<DailyActivity(2, 3, 1, 1)>>,
                                <<ModelUsage("B", 2, 30, 0, 0, 0)>>,
                                1, 3, NullSession, 30),
                <<>>, <<>>, Null),
     RemoteData("h2",
                ClaudeCodeStats(1, <<DailyActivity(3, 3, 2, 0)>>,
                                <<ModelUsage("C", 1, 30, 0, 0, 0)>>,
                                2, 3, NullSession, 20),
                <<>>, <<>>, 25),
     RemoteData("h3",
                ClaudeCodeStats(1, <<DailyActivity(2, 1, 1, 0), DailyActivity(4, 2, 1, 0)>>,
                                <<ModelUsage("B", 1, 10, 0, 0, 0),
                                  ModelUsage("D", 1, 7, 0, 0, 0)>>,
                                2, 3, NullSession, Null),
                <<>>, <<>>, Null),
     RemoteData("h4", NullCache,
                <<HistoryEntry(9, <<"srv", "a">>, "s9")>>, <<<<"a">>>>, 6)}

InitOrder ==
    /\ pc = "start"
    /\ \E c \in OrderLocals, h \in DatedHistories :
           local = CollectedData(c, h, extractProjects(h))
    /\ remotes \in SeqsUpTo(OrderRemotes, MaxRemotes)
    /\ oldestLocal = Null /\ year = 0 /\ now = 50 /\ zone = UTC
    /\ merged = Idle /\ stats = Idle
    /\ IdleStreaks /\ IdleRemote /\ IdleCli /\ IdlePricing /\ IdleRoots

NextOrder == MergeData \/ ComputeStats

SpecOrder == InitOrder /\ [][NextOrder]_vars

\* the permutations of a sequence
PermutationsOf(s) ==
    {[i \in 1..Len(s) |-> s[f[i]]] :
        f \in {f \in [1..Len(s) -> 1..Len(s)] :
                  \A a, b \in 1..Len(s) : f[a] = f[b] => a = b}}

Occurrences(s, x) == Cardinality({i \in 1..Len(s) : s[i] = x})

\* two merge results hold the same data: the same record for every date and
\* for every model, the same totals and first session date, the same
\* project set and the same multiset of history entries
SameMerge(a, b) ==
    /\ a.statsCache.isNull = b.statsCache.isNull
    /\ ~a.statsCache.isNull =>
         /\ Range(a.statsCache.dailyActivity) = Range(b.statsCache.dailyActivity)
         /\ Len(a.statsCache.dailyActivity) = Len(b.statsCache.dailyActivity)
         /\ Range(a.statsCache.modelUsage) = Range(b.statsCache.modelUsage)
         /\ Len(a.statsCache.modelUsage) = Len(b.statsCache.modelUsage)
         /\ a.statsCache.totalSessions = b.statsCache.totalSessions
         /\ a.statsCache.totalMessages = b.statsCache.totalMessages
         /\ a.statsCache.firstSessionDate = b.statsCache.firstSessionDate
    /\ Range(a.projects) = Range(b.projects)
    /\ Len(a.history) = Len(b.history)
    /\ \A e \in Range(a.history) : Occurrences(a.history, e) = Occurrences(b.history, e)

SameTotals(s, t) ==
    /\ s.totalSessions = t.totalSessions /\ s.totalMessages = t.totalMessages
    /\ s.totalProjects = t.totalProjects /\ s.totalPrompts = t.totalPrompts
    /\ s.totalInputTokens = t.totalInputTokens
    /\ s.totalOutputTokens = t.totalOutputTokens
    /\ s.totalCacheReadTokens = t.totalCacheReadTokens
    /\ s.totalCacheWriteTokens = t.totalCacheWriteTokens
    /\ s.totalTokens = t.totalTokens /\ s.totalCost = t.totalCost
    /\ s.firstSessionDate = t.firstSessionDate

StatsOf(rs) == computeStats(year, mergeData(local, rs, now), rs, oldestLocal, now, zone)

NoModelTie ==
    \A i, j \in 1..Len(MergedUsage) : i # j => OutputOf(i) # OutputOf(j)

\* no two days of the activity map hold its largest count
NoDayTie ==
    \A i, j \in 1..Len(stats.dailyActivity) :
        (i # j /\ stats.dailyActivity[i].count = stats.dailyActivity[j].count)
        => \E k \in 1..Len(stats.dailyActivity) :
               stats.dailyActivity[k].count > stats.dailyActivity[i].count

C23_WitnessTie ==
    /\ pc = "done" /\ Len(remotes) = 2
    /\ remotes[1].host = "h2" /\ remotes[2].host = "h1"
    /\ local.statsCache.isNull
    /\ stats.mostActiveDay.date = 3

-----------------------------------------------------------------------------
(* mergeData on object references.  The heap is the sequence of the objects
   allocated so far and a reference is an index into it.  The objects of
   the inputs that a write could reach are on the heap: the dailyActivity
   and modelUsage records of every source cache, and the history and
   projects arrays of the local dataset. *)

Refs(base, n) == [i \in 1..n |-> base + i]

CacheDays(c) == IF c.isNull THEN <<>> ELSE c.dailyActivity
CacheModels(c) == IF c.isNull THEN <<>> ELSE c.modelUsage

RECURSIVE LoadRemotes(_, _)
LoadRemotes(in, rs) ==
    IF rs = <<>> THEN in
    ELSE LET ds == CacheDays(Head(rs).statsCache)
             ms == CacheModels(Head(rs).statsCache)
             n == Len(in.heap)
         IN LoadRemotes(
              [in EXCEPT !.heap = @ \o ds \o ms,
                         !.remoteDays = Append(@, Refs(n, Len(ds))),
                         !.remoteModels = Append(@, Refs(n + Len(ds), Len(ms)))],
              Tail(rs))

\* the heap that holds the arguments of a call, and the references to them
InputHeap(loc, rs) ==
    LET ds == CacheDays(loc.statsCache)
        ms == CacheModels(loc.statsCache)
    IN LoadRemotes(
         [heap |-> ds \o ms \o <<loc.history, loc.projects>>,
          localDays |-> Refs(0, Len(ds)),
          localModels |-> Refs(Len(ds), Len(ms)),
          localHistory |-> Len(ds) + Len(ms) + 1,
          localProjects |-> Len(ds) + Len(ms) + 2,
          remoteDays |-> <<>>, remoteModels |-> <<>>],
         rs)

\* a new object
Alloc(h, v) == [heap |-> Append(h, v), ref |-> Len(h) + 1]

\* the record of the source is stored as it is
AliasDay(h, ref) == [heap |-> h, ref |-> ref]

\* { messageCount: day.messageCount, sessionCount: ..., toolCallCount: ... }
CopyDay(h, ref) == Alloc(h, SetDay(<<>>, h[ref])[1])

\* { ...usage }
CopyUsage(h, ref) == Alloc(h, SetModel(<<>>, h[ref])[1])

\* [...local.history]
CopyArray(h, ref) == Alloc(h, h[ref])

\* new Set(local.projects)
NewSet(h, ref) == Alloc(h, Unique(h[ref]))

\* allHistory.push(...remote.history) for every remote
RECURSIVE PushHistories(_, _, _)
PushHistories(h, a, rs) ==
    IF rs = <<>> THEN h
    ELSE PushHistories([h EXCEPT ![a] = @ \o Head(rs).history], a, Tail(rs))

\* allProjects.add(project) for every project of every remote
RECURSIVE AddProjects(_, _, _)
AddProjects(h, a, rs) ==
    IF rs = <<>> THEN h
    ELSE AddProjects([h EXCEPT ![a] = Unique(@ \o Head(rs).projects)], a, Tail(rs))

\* position of a key in a Map of references, 0 when absent
KeyIndex(m, key) ==
    IF \E i \in 1..Len(m) : m[i].key = key
    THEN CHOOSE i \in 1..Len(m) : m[i].key = key
    ELSE 0

\* map.set(key, ref)
SetRef(m, key, ref) ==
    IF KeyIndex(m, key) = 0 THEN Append(m, [key |-> key, ref |-> ref])
    ELSE [m EXCEPT ![KeyIndex(m, key)].ref = ref]

\* "Process local stats": st is [heap, days, models], the two Maps holding
\* references
RECURSIVE LocalDaysByRef(_, _)
LocalDaysByRef(st, refs) ==
    IF refs = <<>> THEN st
    ELSE LET c == CopyDay(st.heap, Head(refs))
         IN LocalDaysByRef(
              [st EXCEPT !.heap = c.heap,
                         !.days = SetRef(@, c.heap[c.ref].date, c.ref)],
              Tail(refs))

RECURSIVE LocalModelsByRef(_, _)
LocalModelsByRef(st, refs) ==
    IF refs = <<>> THEN st
    ELSE LET c == CopyUsage(st.heap, Head(refs))
         IN LocalModelsByRef(
              [st EXCEPT !.heap = c.heap,
                         !.models = SetRef(@, c.heap[c.ref].id, c.ref)],
              Tail(refs))

\* "Merge remote stats": existing.messageCount += day.messageCount, or a
\* new record
RECURSIVE RemoteDaysByRef(_, _)
RemoteDaysByRef(st, refs) ==
    IF refs = <<>> THEN st
    ELSE LET day == st.heap[Head(refs)]
             i == KeyIndex(st.days, day.date)
         IN RemoteDaysByRef(
              IF i # 0
              THEN [st EXCEPT !.heap[st.days[i].ref] = MergeDay(<<@>>, day)[1]]
              ELSE LET c == Alloc(st.heap, MergeDay(<<>>, day)[1])
                   IN [st EXCEPT !.heap = c.heap,
                                 !.days = SetRef(@, day.date, c.ref)],
              Tail(refs))

RECURSIVE RemoteModelsByRef(_, _)
RemoteModelsByRef(st, refs) ==
    IF refs = <<>> THEN st
    ELSE LET usage == st.heap[Head(refs)]
             i == KeyIndex(st.models, usage.id)
         IN RemoteModelsByRef(
              IF i # 0
              THEN [st EXCEPT !.heap[st.models[i].ref] = MergeModel(<<@>>, usage)[1]]
              ELSE LET c == Alloc(st.heap, MergeModel(<<>>, usage)[1])
                   IN [st EXCEPT !.heap = c.heap,
                                 !.models = SetRef(@, usage.id, c.ref)],
              Tail(refs))

RECURSIVE RemotesByRef(_, _, _)
RemotesByRef(st, in, i) ==
    IF i > Len(in.remoteDays) THEN st
    ELSE RemotesByRef(
           RemoteModelsByRef(RemoteDaysByRef(st, in.remoteDays[i]),
                             in.remoteModels[i]),
           in, i + 1)

\* the call: the heap after it, and the value returned
mergeDataByRef(loc, rs, t) ==
    LET in == InputHeap(loc, rs)
        hist == CopyArray(in.heap, in.localHistory)
        h1 == PushHistories(hist.heap, hist.ref, rs)
        proj == NewSet(h1, in.localProjects)
        h2 == AddProjects(proj.heap, proj.ref, rs)
        st == IF RebuildsCache(rs)
              THEN RemotesByRef(
                     LocalModelsByRef(
                       LocalDaysByRef([heap |-> h2, days |-> <<>>, models |-> <<>>],
                                      in.localDays),
                       in.localModels),
                     in, 1)
              ELSE [heap |-> h2, days |-> <<>>, models |-> <<>>]
        acc == MergeRemotes(MergeLocal(loc), rs)
    IN [heap |-> st.heap, in |-> in,
        result |->
           [statsCache |->
                IF RebuildsCache(rs)
                THEN BuildMergedCache(
                       loc,
                       [acc EXCEPT
                          !.daily = [i \in 1..Len(st.days) |-> st.heap[st.days[i].ref]],
                          !.models = [i \in 1..Len(st.models) |-> st.heap[st.models[i].ref]]],
                       t)
                ELSE loc.statsCache,
            history |-> st.heap[hist.ref],
            projects |-> st.heap[proj.ref]]]

\* the arguments as the caller finds them on the heap
CacheOnHeap(c, h, days, models) ==
    IF c.isNull THEN c
    ELSE [c EXCEPT !.dailyActivity = [i \in 1..Len(days) |-> h[days[i]]],
                   !.modelUsage = [i \in 1..Len(models) |-> h[models[i]]]]

LocalOnHeap(loc, h, in) ==
    CollectedData(CacheOnHeap(loc.statsCache, h, in.localDays, in.localModels),
                  h[in.localHistory], h[in.localProjects])

RemotesOnHeap(rs, h, in) ==
    [i \in 1..Len(rs) |->
        [rs[i] EXCEPT !.statsCache =
            CacheOnHeap(@, h, in.remoteDays[i], in.remoteModels[i])]]

\* const merged = mergeData({ statsCache, history, projects }, remoteData),
\* with what the call leaves of its arguments
MergeDataByRef ==
    /\ pc = "start"
    /\ LET r == mergeDataByRef(local, remotes, now)
       IN /\ merged' = r.result
          /\ local' = LocalOnHeap(local, r.heap, r.in)
          /\ remotes' = RemotesOnHeap(remotes, r.heap, r.in)
    /\ pc' = "merged"
    /\ UNCHANGED <<oldestLocal, year, now, zone, stats, streakVars, remoteVars,
                   pricingVars, rootVars, cliVars>>

NextByRef == MergeDataByRef

SpecByRef == InitMerge /\ [][NextByRef]_vars

\* C24: mergeData leaves the local dataset and every remote dataset as
\* they were, also when a date or a model id occurs in several sources and
\* its merged record is updated several times.
C24_InputsNotMutated == [][local' = local /\ remotes' = remotes]_vars

\* a date of the local cache and of two remote caches was merged
C24_Witness ==
    /\ pc = "merged" /\ Len(remotes) = 2
    /\ \A i \in 1..3 : ~CacheOf(local, remotes, i).isNull
    /\ \A i \in 1..3 : Lists(CacheOf(local, remotes, i), 0)
    /\ DayOf(merged.statsCache, 0).sessionCount =
           DayOf(local.statsCache, 0).sessionCount
           + DayOf(remotes[1].statsCache, 0).sessionCount
           + DayOf(remotes[2].statsCache, 0).sessionCount
    /\ Len(local.history) = 2

\* the call on references returns what mergeData returns
ByRefAgrees == pc = "merged" => merged = mergeData(local, remotes, now)

-----------------------------------------------------------------------------
(* collectHistory (collector.ts).  A storage root is here [path, listable,
   history]: its history.jsonl is missing, unreadable, or the lines read. *)

UnreadableFile == [kind |-> "unreadable"]

\* readFile rejects and nothing catches it
ReadHistoryFileRethrows(root, y, z) ==
    IF root.history.kind # "lines" THEN [threw |-> TRUE, entries |-> <<>>]
    ELSE [threw |-> FALSE, entries |-> ParseHistoryLines(root.history.lines, y, z)]

\* the try around readFile and the loop over the lines of one root
ReadHistoryFile(root, y, z) ==
    IF root.history.kind # "lines" THEN [threw |-> FALSE, entries |-> <<>>]
    ELSE [threw |-> FALSE, entries |-> ParseHistoryLines(root.history.lines, y, z)]

RECURSIVE ReadHistoryFiles(_, _, _, _)
ReadHistoryFiles(acc, rs, y, z) ==
    IF rs = <<>> \/ acc.threw THEN acc
    ELSE LET r == ReadHistoryFile(Head(rs), y, z)
         IN ReadHistoryFiles([threw |-> r.threw,
                              entries |-> acc.entries \o r.entries],
                             Tail(rs), y, z)

collectHistory(rs, y, z) ==
    ReadHistoryFiles([threw |-> FALSE, entries |-> <<>>],
                     getValidClaudePaths(rs), y, z)

\* a zone east of Greenwich without clock changes
EastZone == [offset |-> 3, dstDay |-> 0, shift |-> 0]

\* files: empty, one malformed line, and two with records of the requested
\* year, of the next year and of the last hours (UTC) of the requested year
HistoryFiles ==
    {MissingFile, UnreadableFile,
     Lines(<<BlankLine>>),
     Lines(<<InvalidLine>>),
     Lines(<<RecordLine(HistoryEntry(30, <<"home", "a">>, "s1")),
             InvalidLine,
             BlankLine,
             RecordLine(HistoryEntry(DayMs * YearLen - 2, <<"home", "b">>, "s2")),
             ValueLine,
             RecordLine(HistoryEntry(DayMs * YearLen + 30, <<"home", "a">>, "s3"))>>),
     Lines(<<RecordLine(HistoryEntry(5, <<"work", "c">>, "s4")),
             RecordLine(HistoryEntry(30, <<"home", "a">>, "s1"))>>)}

InitLocalHistory ==
    /\ pc = "start"
    /\ \E l \in [1..Len(CLAUDE_DATA_PATHS) -> BOOLEAN],
          f \in [1..Len(CLAUDE_DATA_PATHS) -> HistoryFiles] :
          roots = [i \in 1..Len(CLAUDE_DATA_PATHS) |->
                      [path |-> CLAUDE_DATA_PATHS[i], listable |-> l[i],
                       history |-> f[i]]]
    /\ collected = Idle
    /\ local = Idle /\ remotes = Idle /\ oldestLocal = Null
    /\ year \in {Null, 0} /\ now = 0 /\ zone \in {UTC, EastZone}
    /\ merged = Idle /\ stats = Idle
    /\ IdleStreaks /\ IdleRemote /\ IdleCli /\ IdlePricing

\* const history = await collectHistory(year)
CollectHistory ==
    /\ pc = "start"
    /\ collected' = collectHistory(roots, year, zone)
    /\ pc' = "done"
    /\ UNCHANGED <<inputVars, merged, stats, streakVars, remoteVars, cliVars,
                   pricingVars, roots>>

NextLocalHistory == CollectHistory

SpecLocalHistory == InitLocalHistory /\ [][NextLocalHistory]_vars

\* the instant lies in calendar year y of the zone
InYear(z, t, y) ==
    LocalDayStart(z, y * YearLen) <= t /\ t < LocalDayStart(z, (y + 1) * YearLen)

\* the line is JSON and, with a year given, carries a timestamp of that year
KeptLine(l) ==
    /\ l.kind \in {"record", "value"}
    /\ year # Null => (l.kind = "record" /\ InYear(zone, l.entry.timestamp, year))

\* the lines of the files that are read, in the order of the roots and of
\* the files
LinesRead ==
    Concat([i \in 1..Len(roots) |->
               IF roots[i].listable /\ roots[i].history.kind = "lines"
               THEN roots[i].history.lines ELSE <<>>])

\* C25: collectHistory returns, in file order (the roots in preference
\* order), exactly the lines that parse and, with a year filter, whose
\* timestamp falls in that calendar year; malformed and blank lines are
\* dropped without effect on the lines around them, a missing or unreadable
\* file contributes nothing, and the call never raises an error.
C25_CollectHistory ==
    pc = "done" =>
        /\ ~collected.threw
        /\ LET kept == SelectSeq(LinesRead, KeptLine)
           IN collected.entries = [i \in 1..Len(kept) |-> kept[i].entry]

\* the first root has an unreadable file and the second the file with
\* malformed lines between records; the year filter is on, east of Greenwich
C25_Witness ==
    /\ pc = "done" /\ year = 0 /\ zone = EastZone
    /\ roots[1].listable /\ roots[1].history.kind = "unreadable"
    /\ roots[2].listable /\ roots[2].history.kind = "lines"
    /\ Len(roots[2].history.lines) = 6
    /\ Len(collected.entries) = 1 /\ collected.entries[1].sessionId = "s1"

-----------------------------------------------------------------------------
(* The transcript scans (collector.ts).  A storage root is here [path,
   listable, projects]: projects is missing or the project directories in
   readdir order; a directory is unreadable or its files in readdir order.
   A file name is the sequence of its parts, "agent-" first for a sub-agent
   transcript and ".jsonl" last for a transcript. *)

TranscriptFile(name, content) == [name |-> name, content |-> content]

\* a transcript line that parses: type, message.usage present, timestamp
\* (an ISO string, here its instant, or Null when absent), sessionId
TranscriptLine(type, usage, timestamp, sessionId) ==
    [kind |-> "record", type |-> type, usage |-> usage,
     timestamp |-> timestamp, sessionId |-> sessionId]

startsWithAgent(name) == name # <<>> /\ name[1] = "agent-"

endsWithJsonl(name) == name # <<>> /\ name[Len(name)] = ".jsonl"

\* f.endsWith(".jsonl") && !f.startsWith("agent-")
SessionFile(name) == endsWithJsonl(name) /\ ~startsWithAgent(name)

\* f.endsWith(".jsonl")
OldestFile(name) == endsWithJsonl(name)

\* jsonlFile.replace(".jsonl", "")
SessionIdOf(name) == SelectSeq(name, LAMBDA part : part # ".jsonl")

\* the files of one directory that pass the filter and can be read
RECURSIVE FilesOfDir(_, _)
FilesOfDir(files, agentsToo) ==
    IF files = <<>> THEN <<>>
    ELSE LET f == Head(files)
             wanted == IF agentsToo THEN OldestFile(f.name)
                       ELSE SessionFile(f.name)
         IN (IF wanted /\ f.content.kind = "lines" THEN <<f>> ELSE <<>>)
            \o FilesOfDir(Tail(files), agentsToo)

RECURSIVE FilesOfDirs(_, _)
FilesOfDirs(dirs, agentsToo) ==
    IF dirs = <<>> THEN <<>>
    ELSE (IF Head(dirs).kind = "files"
          THEN FilesOfDir(Head(dirs).files, agentsToo) ELSE <<>>)
         \o FilesOfDirs(Tail(dirs), agentsToo)

\* the walk shared by the scans: valid roots, project directories, files
RECURSIVE WalkRoots(_, _)
WalkRoots(rs, agentsToo) ==
    IF rs = <<>> THEN <<>>
    ELSE (IF Head(rs).projects.kind = "dirs"
          THEN FilesOfDirs(Head(rs).projects.dirs, agentsToo) ELSE <<>>)
         \o WalkRoots(Tail(rs), agentsToo)

SessionMessage(l) ==
    [type |-> l.type, sessionId |-> l.sessionId, timestamp |-> l.timestamp]

\* the loop over the lines of collectSessionMessages
RECURSIVE MessagesOfLines(_, _, _)
MessagesOfLines(lines, y, z) ==
    IF lines = <<>> THEN <<>>
    ELSE LET l == Head(lines)
             rest == MessagesOfLines(Tail(lines), y, z)
         IN IF l.kind # "record" THEN rest
            ELSE IF ~(l.type = "assistant" /\ l.usage) THEN rest
            ELSE IF y # Null /\ (l.timestamp = Null
                                 \/ YearOf(formatDateKey(z, l.timestamp)) # y)
                 THEN rest
                 ELSE <<SessionMessage(l)>> \o rest

RECURSIVE MessagesOfFiles(_, _, _)
MessagesOfFiles(files, y, z) ==
    IF files = <<>> THEN <<>>
    ELSE MessagesOfLines(Head(files).content.lines, y, z)
         \o MessagesOfFiles(Tail(files), y, z)

collectSessionMessages(rs, y, z) ==
    MessagesOfFiles(WalkRoots(getValidClaudePaths(rs), FALSE), y, z)

\* one counted line: dailyActivity and sessionsPerDay, both keyed by dateKey
\* in insertion order; acc[i] = [date, messageCount, sessions]
CountLine(acc, dateKey, sessionId) ==
    IF \E i \in 1..Len(acc) : acc[i].date = dateKey
    THEN [i \in 1..Len(acc) |->
             IF acc[i].date = dateKey
             THEN [acc[i] EXCEPT !.messageCount = @ + 1,
                                 !.sessions = @ \cup {sessionId}]
             ELSE acc[i]]
    ELSE Append(acc, [date |-> dateKey, messageCount |-> 1,
                      sessions |-> {sessionId}])

RECURSIVE ActivityOfLines(_, _, _, _, _)
ActivityOfLines(acc, lines, sessionId, y, z) ==
    IF lines = <<>> THEN acc
    ELSE LET l == Head(lines)
             skip == \/ l.kind # "record"
                     \/ l.timestamp = Null
                     \/ y # Null /\ YearOf(formatDateKey(z, l.timestamp)) # y
                     \/ l.type \notin {"user", "assistant"}
         IN ActivityOfLines(IF skip THEN acc
                            ELSE CountLine(acc, formatDateKey(z, l.timestamp),
                                           sessionId),
                            Tail(lines), sessionId, y, z)

RECURSIVE ActivityOfFiles(_, _, _, _)
ActivityOfFiles(acc, files, y, z) ==
    IF files = <<>> THEN acc
    ELSE ActivityOfFiles(ActivityOfLines(acc, Head(files).content.lines,
                                         SessionIdOf(Head(files).name), y, z),
                         Tail(files), y, z)

\* the final loop writes sessions.size into sessionCount
collectDailyActivityFromSessions(rs, y, z) ==
    LET acc == ActivityOfFiles(<<>>, WalkRoots(getValidClaudePaths(rs), FALSE),
                               y, z)
    IN [i \in 1..Len(acc) |->
           [date |-> acc[i].date, messageCount |-> acc[i].messageCount,
            sessionCount |-> Cardinality(acc[i].sessions)]]

\* content.split("\n").slice(0, 10)
FirstLines == 10

RECURSIVE OldestOfLines(_, _)
OldestOfLines(oldest, lines) ==
    IF lines = <<>> THEN oldest
    ELSE LET l == Head(lines)
         IN OldestOfLines(IF l.kind = "record" /\ l.timestamp # Null
                             /\ (oldest = Null \/ l.timestamp < oldest)
                          THEN l.timestamp ELSE oldest,
                          Tail(lines))

RECURSIVE OldestOfFiles(_, _)
OldestOfFiles(oldest, files) ==
    IF files = <<>> THEN oldest
    ELSE OldestOfFiles(OldestOfLines(oldest,
                                     Slice(Head(files).content.lines, FirstLines)),
                       Tail(files))

findOldestLocalSessionTimestamp(rs) ==
    OldestOfFiles(Null, WalkRoots(getValidClaudePaths(rs), TRUE))

\* a session transcript, a sub-agent transcript that starts earlier, a file
\* that is no transcript, an unreadable transcript, a transcript of next year
T_session ==
    TranscriptFile(<<"s1", ".jsonl">>,
        Lines(<<TranscriptLine("user", FALSE, 30, "s1"),
                TranscriptLine("assistant", TRUE, 31, "s1"),
                InvalidLine,
                TranscriptLine("assistant", FALSE, 32, "s1"),
                TranscriptLine("summary", FALSE, Null, "s1")>>))

T_agent ==
    TranscriptFile(<<"agent-", "a1", ".jsonl">>,
        Lines(<<TranscriptLine("user", FALSE, 3, "s1"),
                TranscriptLine("assistant", TRUE, 4, "s1")>>))

T_notes == TranscriptFile(<<"notes", ".txt">>, Lines(<<InvalidLine>>))

T_locked == TranscriptFile(<<"s2", ".jsonl">>, UnreadableFile)

T_next ==
    TranscriptFile(<<"s3", ".jsonl">>,
        Lines(<<BlankLine,
                TranscriptLine("assistant", TRUE, DayMs * YearLen - 2, "s3"),
                TranscriptLine("user", FALSE, DayMs * YearLen + 30, "s3")>>))

Files(files) == [kind |-> "files", files |-> files]

ProjectDirs ==
    {[kind |-> "unreadable"], Files(<<T_session>>), Files(<<T_agent, T_session>>),
     Files(<<T_agent>>), Files(<<T_notes, T_locked, T_next>>)}

MaxDirs == 2

ProjectTrees ==
    {[kind |-> "missing"]}
    \cup {[kind |-> "dirs", dirs |-> d] : d \in SeqsUpTo(ProjectDirs, MaxDirs)}

InitTranscripts ==
    /\ pc = "start"
    /\ \E l \in [1..Len(CLAUDE_DATA_PATHS) -> BOOLEAN],
          t \in [1..Len(CLAUDE_DATA_PATHS) -> ProjectTrees] :
          roots = [i \in 1..Len(CLAUDE_DATA_PATHS) |->
                      [path |-> CLAUDE_DATA_PATHS[i], listable |-> l[i],
                       projects |-> t[i]]]
    /\ collected = Idle
    /\ local = Idle /\ remotes = Idle /\ oldestLocal = Null
    /\ year \in {Null, 0} /\ now = 0 /\ zone \in {UTC, EastZone}
    /\ merged = Idle /\ stats = Idle
    /\ IdleStreaks /\ IdleRemote /\ IdleCli /\ IdlePricing

ScanUnchanged ==
    UNCHANGED <<local, remotes, year, now, zone, merged, stats, streakVars,
                remoteVars, cliVars, pricingVars, roots>>

CollectSessionMessages ==
    /\ pc = "start"
    /\ collected' = collectSessionMessages(roots, year, zone)
    /\ pc' = "messages"
    /\ UNCHANGED oldestLocal
    /\ ScanUnchanged

CollectDailyActivityFromSessions ==
    /\ pc = "start"
    /\ collected' = collectDailyActivityFromSessions(roots, year, zone)
    /\ pc' = "activity"
    /\ UNCHANGED oldestLocal
    /\ ScanUnchanged

\* const oldestLocalTimestamp = await findOldestLocalSessionTimestamp()
FindOldestLocalSessionTimestamp ==
    /\ pc = "start"
    /\ oldestLocal' = findOldestLocalSessionTimestamp(roots)
    /\ pc' = "oldest"
    /\ UNCHANGED collected
    /\ ScanUnchanged

NextTranscripts ==
    \/ CollectSessionMessages
    \/ CollectDailyActivityFromSessions
    \/ FindOldestLocalSessionTimestamp

SpecTranscripts == InitTranscripts /\ [][NextTranscripts]_vars

\* the roots with every sub-agent file removed from every directory
WithoutAgentFiles(rs) ==
    [i \in 1..Len(rs) |->
        IF rs[i].projects.kind # "dirs" THEN rs[i]
        ELSE [rs[i] EXCEPT !.projects.dirs =
                 [d \in 1..Len(@) |->
                     IF @[d].kind # "files" THEN @[d]
                     ELSE Files(SelectSeq(@[d].files,
                                  LAMBDA f : ~startsWithAgent(f.name)))]]]

HasAgentFile(rs) == WithoutAgentFiles(rs) # rs

MessagesExcludeAgents ==
    pc = "messages" =>
        collected = collectSessionMessages(WithoutAgentFiles(roots), year, zone)

ActivityExcludesAgents ==
    pc = "activity" =>
        collected = collectDailyActivityFromSessions(WithoutAgentFiles(roots),
                                                     year, zone)

OldestExcludesAgents ==
    pc = "oldest" =>
        oldestLocal = findOldestLocalSessionTimestamp(WithoutAgentFiles(roots))

\* C26: no line of a sub-agent transcript (file name starting with agent-)
\* contributes to the collected session messages, to the session-derived
\* daily activity, or to the timestamp of findOldestLocalSessionTimestamp:
\* each scan returns what it returns for the tree without those files.
C26_AgentFilesExcluded ==
    MessagesExcludeAgents /\ ActivityExcludesAgents /\ OldestExcludesAgents

\* what the code does: the messages and the daily activity leave the
\* sub-agent files out; the oldest timestamp is taken over every .jsonl file
C26_AgentFilesExcludedFromMessagesAndActivity ==
    /\ MessagesExcludeAgents
    /\ ActivityExcludesAgents
    /\ pc = "oldest" =>
           oldestLocal = OldestOfFiles(Null,
               FilesOfDirs(Concat([i \in 1..Len(roots) |->
                               IF roots[i].listable /\ roots[i].projects.kind = "dirs"
                               THEN roots[i].projects.dirs ELSE <<>>]), TRUE))

\* a sub-agent file beside a session file was scanned for messages
C26_WitnessMessages ==
    /\ pc = "messages" /\ HasAgentFile(getValidClaudePaths(roots))
    /\ Len(collected) = 1 /\ collected[1].timestamp = 31

\* the oldest timestamp is the first line of a sub-agent file
C26_WitnessOldestFromAgent ==
    /\ pc = "oldest" /\ oldestLocal = 3
    /\ findOldestLocalSessionTimestamp(WithoutAgentFiles(roots)) = 30

-----------------------------------------------------------------------------
(* The longest session of calculateStats, over the sources of the merge *)

SpecSession == InitMerge /\ [][NextStats]_vars

\* the caches that contribute to the merge
ContributingCaches ==
    {c \in {local.statsCache} \cup {remotes[i].statsCache : i \in 1..Len(remotes)} :
        ~c.isNull}

SessionProvided == \E c \in ContributingCaches : ~c.longestSession.isNull

\* C27: longestSession of calculateStats carries the duration and the
\* messageCount of the merged cache's longest-session record when some source
\* provides one, and is null otherwise: it is null when no contributing cache,
\* local or remote, has a longest-session record, also with remote datasets.
C27_LongestSessionOrNull ==
    pc = "done" =>
        IF SessionProvided
        THEN /\ ~stats.longestSession.isNull
             /\ stats.longestSession.duration
                    = merged.statsCache.longestSession.duration
             /\ stats.longestSession.messageCount
                    = merged.statsCache.longestSession.messageCount
        ELSE stats.longestSession.isNull

\* what the code does: without remote datasets the record of the local cache
\* or null; with remote datasets the record of the local cache or, when the
\* local cache has none, a record of zeros, whatever the remote caches hold
C27_LongestSessionOfLocalOrZeros ==
    pc = "done" =>
        LET own == ~local.statsCache.isNull
                   /\ ~local.statsCache.longestSession.isNull
        IN IF own
           THEN /\ ~stats.longestSession.isNull
                /\ stats.longestSession.duration
                       = local.statsCache.longestSession.duration
                /\ stats.longestSession.messageCount
                       = local.statsCache.longestSession.messageCount
           ELSE IF remotes = <<>> THEN stats.longestSession.isNull
           ELSE /\ ~stats.longestSession.isNull
                /\ stats.longestSession.duration = 0
                /\ stats.longestSession.messageCount = 0

\* remote datasets are present, no cache has a record, and the statistics
\* carry a record of zeros
C27_WitnessZeros ==
    /\ pc = "done" /\ remotes # <<>> /\ ~SessionProvided
    /\ ~stats.longestSession.isNull /\ stats.longestSession.duration = 0

\* without remote datasets and without a record the result is null
C27_WitnessNull ==
    /\ pc = "done" /\ remotes = <<>> /\ ~local.statsCache.isNull
    /\ ~SessionProvided /\ stats.longestSession.isNull

-----------------------------------------------------------------------------
(* The totals of calculateStats and the history heuristic *)

\* the daily entries of the merged cache whose date lies in the requested year
YearEntries ==
    IF merged.statsCache.isNull THEN <<>>
    ELSE SelectSeq(merged.statsCache.dailyActivity,
                   LAMBDA day : YearOf(day.date) = year)

CacheMessages == SumSeq([i \in 1..Len(YearEntries) |-> YearEntries[i].messageCount])

CacheSessions == SumSeq([i \in 1..Len(YearEntries) |-> YearEntries[i].sessionCount])

TotalsAreEstimate ==
    /\ stats.totalMessages = 20 * Len(merged.history)
    /\ stats.totalSessions = Cardinality(SessionIds)

TotalsAreCacheSums ==
    /\ stats.totalMessages = CacheMessages
    /\ stats.totalSessions = CacheSessions

\* C28: the 20x history heuristic replaces the totals only when both the
\* message total and the session total of the cache over the requested year
\* are zero and history is non-empty; in every other case totalMessages and
\* totalSessions are the sums over the daily entries of the year, so a nonzero
\* session total of the cache is never overwritten.
C28_HeuristicOnlyWhenBothZero ==
    pc = "done" =>
        IF CacheMessages = 0 /\ CacheSessions = 0 /\ Len(merged.history) > 0
        THEN TotalsAreEstimate
        ELSE TotalsAreCacheSums

\* what the code does: the message total alone decides
C28_HeuristicWhenMessagesZero ==
    pc = "done" =>
        IF CacheMessages = 0 /\ Len(merged.history) > 0
        THEN TotalsAreEstimate
        ELSE TotalsAreCacheSums

\* a cache day of the year with a session and no message, and a history over
\* three sessions: the session total 1 of the cache is reported as 3
C28_WitnessSessionsOverwritten ==
    /\ pc = "done" /\ CacheMessages = 0 /\ CacheSessions = 1
    /\ Cardinality(SessionIds) = 3 /\ stats.totalSessions = 3

\* messages in the year: the totals are the sums although history exists
C28_WitnessCacheSums ==
    /\ pc = "done" /\ CacheMessages = 3 /\ Len(merged.history) > 0
    /\ stats.totalMessages = 3 /\ stats.totalSessions = CacheSessions

-----------------------------------------------------------------------------
(* The first session date when no cache and no transcript scan gives one *)

HistoryTimestamps == {merged.history[i].timestamp : i \in 1..Len(merged.history)}

FirstIsEarliestHistory ==
    /\ stats.firstSessionDate = Earliest(HistoryTimestamps)
    /\ stats.daysSinceFirstSession = (now - Earliest(HistoryTimestamps)) \div DayMs

FirstIsNow == stats.firstSessionDate = now /\ stats.daysSinceFirstSession = 0

\* C29: when no source provides a cache first-session date and no transcript
\* scan, local or remote, provides an oldest timestamp, but the merged
\* history is non-empty, firstSessionDate is the earliest history timestamp,
\* with zero remote datasets and equally with remote datasets (without
\* cache); only with an empty history it is the current time, with
\* daysSinceFirstSession = 0.
C29_HistoryFallback ==
    (pc = "done" /\ Candidates = {}) =>
        IF Len(merged.history) > 0 THEN FirstIsEarliestHistory ELSE FirstIsNow

\* what the code does: the history is consulted without remote datasets only
C29_HistoryFallbackWithoutRemotes ==
    (pc = "done" /\ Candidates = {}) =>
        IF Len(merged.history) > 0 /\ remotes = <<>>
        THEN FirstIsEarliestHistory ELSE FirstIsNow

\* a remote dataset without cache, a history, and the current time reported
C29_WitnessRemoteNow ==
    /\ pc = "done" /\ Candidates = {} /\ Len(remotes) = 1
    /\ remotes[1].statsCache.isNull /\ Len(merged.history) = 2
    /\ stats.firstSessionDate = now

\* no remote dataset: the earliest history entry is reported
C29_WitnessHistory ==
    /\ pc = "done" /\ Candidates = {} /\ remotes = <<>>
    /\ Len(merged.history) = 2 /\ stats.firstSessionDate = 8
    /\ stats.daysSinceFirstSession = 1

-----------------------------------------------------------------------------
(* The weekday histogram against the daily-activity map and the totals *)

WeekSum == SumSeq(stats.weekdayActivity.counts)

MapSum == SumSeq([i \in 1..Len(stats.dailyActivity) |-> stats.dailyActivity[i].count])

\* the map was filled from the days of the merged cache
CacheDerived == YearEntries # <<>>

\* maxCount is the largest bucket and mostActiveDay the lowest index holding
\* it: index 0 with maxCount 0 when every bucket is 0
LargestBucket ==
    LET w == stats.weekdayActivity
    IN /\ w.mostActiveDay \in 0..6
       /\ w.maxCount = w.counts[w.mostActiveDay + 1]
       /\ \A i \in 1..7 : w.counts[i] <= w.maxCount
       /\ \A i \in 1..w.mostActiveDay : w.counts[i] < w.maxCount

\* C30: the sum of the 7 weekday buckets equals the sum of the counts of the
\* returned daily-activity map, in the cache-derived case and in the
\* history-fallback case; in the cache-derived case both also equal
\* totalMessages; weekdayActivity.maxCount is the largest bucket and
\* mostActiveDay the lowest index holding it.
C30_LockStep ==
    pc = "done" =>
        /\ WeekSum = MapSum
        /\ CacheDerived => WeekSum = stats.totalMessages
        /\ LargestBucket

\* what the code does: buckets and map agree and the scan is as claimed, but
\* a cache whose days of the year hold no message leaves map and buckets at
\* 0 while the history estimate sets totalMessages
C30_LockStepOfMapAndBuckets ==
    pc = "done" =>
        /\ WeekSum = MapSum
        /\ CacheDerived =>
              IF CacheMessages = 0 /\ Len(merged.history) > 0
              THEN WeekSum = 0 /\ stats.totalMessages = 20 * Len(merged.history)
              ELSE WeekSum = stats.totalMessages
        /\ LargestBucket

\* a cache day of the year without messages and a history of two entries:
\* buckets and map sum to 0 and totalMessages is 40
C30_WitnessEstimateBesideCache ==
    /\ pc = "done" /\ CacheDerived /\ Len(merged.history) = 2
    /\ WeekSum = 0 /\ MapSum = 0 /\ stats.totalMessages = 40
    /\ stats.weekdayActivity.mostActiveDay = 0

\* the history fallback: five entries on two weekdays, the buckets sum to 5
\* and the largest bucket is reported with its index
C30_WitnessFallback ==
    /\ pc = "done" /\ ~CacheDerived /\ Len(merged.history) = 5
    /\ WeekSum = 5 /\ MapSum = 5
    /\ stats.weekdayActivity.counts[2] = 2
    /\ stats.weekdayActivity.maxCount = 3
    /\ stats.weekdayActivity.mostActiveDay = 0
=============================================================================
